---- MODULE Spec2Model ----
(***************************************************************************)
(* A model of the threat-intelligence knowledge graph: the local           *)
(* extractor (processTextLocal), the merge utility (mergeKnowledgeGraph),  *)
(* and the two ingestion pipelines of App.tsx (the local one built on the  *)
(* merge utility and the AI one with its inline normalization).            *)
(*                                                                         *)
(* Conventions.  Names, descriptions and texts are strings, read character *)
(* by character with SubSeq.  Scores and weights are the code's numbers    *)
(* times 100 (0.95 is 95, 0.5 is 50, 1 is 100).  Identifiers produced by   *)
(* crypto.randomUUID() are fresh naturals.  The arrays aliases, sectors,   *)
(* tools and sources, which the code only ever reads as collections and    *)
(* rebuilds through new Set(...), are sets.  An absent optional field      *)
(* (description, sectors, tools) is the empty value the code itself        *)
(* substitutes for it (|| "" and || []).  A value the code names once and  *)
(* reads several times is bound with With.                                 *)
(***************************************************************************)
EXTENDS Integers, Sequences, FiniteSets, TLC

VARIABLES
    entities,        \* App state: const [entities, setEntities]
    relationships,   \* App state: const [relationships, setRelationships]
    nextId,          \* source of fresh identifiers (crypto.randomUUID)
    now,             \* the clock read by new Date()
    text,            \* the text handed to the extractor (fragments at offsets)
    extracted,       \* the value last returned by processTextLocal
    last,            \* record of the last operation: inputs, id map, snapshot before
    names,           \* the two strings handed to getSimilarity
    similarity,      \* the values last returned by getSimilarity
    query,           \* ThreatQuery state: const [query, setQuery]
    results,         \* ThreatQuery state: const [results, setResults]
    error,           \* ThreatQuery state: const [error, setError]
    reports,         \* App state: const [reports, setReports]
    timers,          \* the saveWorkspace closures handed to setTimeout, not yet run
    saved            \* the record last written by POST /api/data

vars == <<entities, relationships, nextId, now, text, extracted, last,
          names, similarity, query, results, error, reports, timers, saved>>

saveVars == <<reports, timers, saved>>

simVars == <<names, similarity>>

queryVars == <<query, results, error>>

----------------------------------------------------------------------------
(* Bounds *)

MaxFragments == 2      \* fragments of one extracted text
MaxClock == 3          \* ingestions in one behaviour (one clock reading each)
MaxExisting == 2       \* entities of the graph handed to a merge call
MaxIncoming == 2       \* entities of the batch handed to a merge call
MaxRelBatch == 2       \* relationships of the batch handed to a reconcile call

----------------------------------------------------------------------------
(* Strings *)

\* F at the value of e: names a value that is used more than once, the way a
\* const declaration of the code does
With(e, F(_)) == F(e)

Max(S) == CHOOSE x \in S : \A y \in S : y <= x
Min(S) == CHOOSE x \in S : \A y \in S : x <= y

\* s[a..b], empty when the range leaves the string
slice(s, a, b) == IF a >= 1 /\ b <= Len(s) /\ a <= b THEN SubSeq(s, a, b) ELSE ""

charAt(s, i) == slice(s, i, i)

\* String.prototype.includes: t occurs in s as a literal substring
includes(s, t) == \E i \in 1..(Len(s) - Len(t) + 1) : slice(s, i, i + Len(t) - 1) = t

\* String.prototype.indexOf, 0-based, -1 when absent
indexOf(s, t) ==
    IF includes(s, t)
    THEN Min({i \in 1..(Len(s) - Len(t) + 1) : slice(s, i, i + Len(t) - 1) = t}) - 1
    ELSE -1

UpperChars == <<"A", "B", "C", "D", "E", "F", "G", "H", "I", "J", "K", "L", "M",
                "N", "O", "P", "Q", "R", "S", "T", "U", "V", "W", "X", "Y", "Z">>
LowerChars == <<"a", "b", "c", "d", "e", "f", "g", "h", "i", "j", "k", "l", "m",
                "n", "o", "p", "q", "r", "s", "t", "u", "v", "w", "x", "y", "z">>
UpperSet == {UpperChars[i] : i \in 1..26}
LowerSet == {LowerChars[i] : i \in 1..26}
DigitSet == {"0", "1", "2", "3", "4", "5", "6", "7", "8", "9"}

isUpper(c) == c \in UpperSet
isLower(c) == c \in LowerSet
isDigit(c) == c \in DigitSet
isAlnum(c) == isUpper(c) \/ isLower(c) \/ isDigit(c)
isWordChar(c) == isAlnum(c) \/ c = "_"
isSpace(c) == c \in {" ", "\n", "\t"}

LowerOf == [c \in UpperSet |-> LowerChars[CHOOSE i \in 1..26 : UpperChars[i] = c]]

lowerChar(c) == IF isUpper(c) THEN LowerOf[c] ELSE c

\* String.prototype.toLowerCase
RECURSIVE toLowerCase(_)
toLowerCase(s) ==
    IF Len(s) = 0 THEN ""
    ELSE lowerChar(charAt(s, 1)) \o toLowerCase(slice(s, 2, Len(s)))

\* the regular expression assertion \b between positions p-1 and p
wordBoundary(s, p) == isWordChar(charAt(s, p - 1)) # isWordChar(charAt(s, p))

allChars(s, a, b, P(_)) == \A k \in a..b : P(charAt(s, k))

----------------------------------------------------------------------------
(* The patterns of the extractor.  For a start position i, XEnds(s, i) is  *)
(* the set of positions e such that s[i..e] matches the pattern; the       *)
(* quantifiers of all four patterns are greedy and their alternatives are  *)
(* separated by characters the repeated classes exclude, so the match the  *)
(* engine returns from i is the longest one.                               *)

\* PATTERNS.IP_ADDRESS: /\b(?:\d{1,3}\.){3}\d{1,3}\b/g
IPEnds(s, i) ==
    IF ~wordBoundary(s, i) THEN {}
    ELSE {e \in i..Len(s) :
            /\ wordBoundary(s, e + 1)
            /\ \E l1, l2, l3 \in 1..3 :
                 LET p1 == i + l1
                     p2 == p1 + 1 + l2
                     p3 == p2 + 1 + l3
                 IN  /\ allChars(s, i, p1 - 1, isDigit) /\ charAt(s, p1) = "."
                     /\ allChars(s, p1 + 1, p2 - 1, isDigit) /\ charAt(s, p2) = "."
                     /\ allChars(s, p2 + 1, p3 - 1, isDigit) /\ charAt(s, p3) = "."
                     /\ (e - p3) \in 1..3
                     /\ allChars(s, p3 + 1, e, isDigit)}

\* PATTERNS.CVE: /CVE-\d{4}-\d{4,7}/gi
CVEEnds(s, i) ==
    {e \in i..Len(s) :
        /\ toLowerCase(slice(s, i, i + 3)) = "cve-"
        /\ allChars(s, i + 4, i + 7, isDigit)
        /\ charAt(s, i + 8) = "-"
        /\ (e - (i + 8)) \in 4..7
        /\ allChars(s, i + 9, e, isDigit)}

isLabelChar(c) == isAlnum(c) \/ c = "-"

\* [a-z0-9](?:[a-z0-9-]{0,61}[a-z0-9])? under the i flag: 1 to 63 characters
isLabel(s, a, b) ==
    /\ a <= b /\ b - a + 1 <= 63
    /\ isAlnum(charAt(s, a)) /\ isAlnum(charAt(s, b))
    /\ allChars(s, a, b, isLabelChar)

\* [a-z0-9][a-z0-9-]{0,61}[a-z0-9] under the i flag: 2 to 63 characters
isLastLabel(s, a, b) == isLabel(s, a, b) /\ b - a + 1 >= 2

\* the first position of the dot-free run that ends just before position p
runStart(s, i, p) == Max({q \in i..p : q = i \/ charAt(s, q - 1) = "."})

\* PATTERNS.DOMAIN:
\* /\b(?:[a-z0-9](?:[a-z0-9-]{0,61}[a-z0-9])?\.)+[a-z0-9][a-z0-9-]{0,61}[a-z0-9]\b/gi
DomainEnds(s, i) ==
    IF ~wordBoundary(s, i) THEN {}
    ELSE {e \in i..Len(s) :
            /\ wordBoundary(s, e + 1)
            /\ \E d \in i..e :
                 /\ charAt(s, d) = "."
                 /\ \A p \in i..d : charAt(s, p) = "." => isLabel(s, runStart(s, i, p), p - 1)
                 /\ isLastLabel(s, d + 1, e)}

SUFFIXES == <<"Group", "Team", "Spider", "Panda", "Kitten", "Bear", "Choillima">>

\* [A-Z][a-z]+
isCapWord(s, a, b) == b > a /\ isUpper(charAt(s, a)) /\ allChars(s, a + 1, b, isLower)

spaceRunStart(s, i, p) == Max({q \in i..p : q = i \/ isSpace(charAt(s, q - 1))})

\* [A-Z][a-z]+(?:\s[A-Z][a-z]+)*
isCapWords(s, a, b) ==
    /\ a <= b /\ ~isSpace(charAt(s, b))
    /\ \A p \in a..(b + 1) :
         (p = b + 1 \/ isSpace(charAt(s, p))) => isCapWord(s, spaceRunStart(s, a, p), p - 1)

\* /([A-Z][a-z]+(?:\s[A-Z][a-z]+)*)\s(Group|Team|Spider|Panda|Kitten|Bear|Choillima)/g
GroupEnds(s, i) ==
    {e \in i..Len(s) :
        \E k \in 1..Len(SUFFIXES) :
            LET b == e - Len(SUFFIXES[k])   \* the \s before the suffix
            IN  /\ slice(s, b + 1, e) = SUFFIXES[k]
                /\ isSpace(charAt(s, b))
                /\ isCapWords(s, i, b - 1)}

Ends(pat, s, i) ==
    CASE pat = "IP_ADDRESS" -> IPEnds(s, i)
      [] pat = "CVE" -> CVEEnds(s, i)
      [] pat = "DOMAIN" -> DomainEnds(s, i)
      [] pat = "GROUP" -> GroupEnds(s, i)

\* the successive matches of a global regular expression in s, from position
\* from on: each is the leftmost start that matches, with its longest end, and
\* the search resumes after it (lastIndex)
RECURSIVE findAll(_, _, _)
findAll(pat, s, from) ==
    With({i \in from..Len(s) : Ends(pat, s, i) # {}}, LAMBDA starts :
        IF starts = {} THEN <<>>
        ELSE With(Min(starts), LAMBDA i :
             With(Max(Ends(pat, s, i)), LAMBDA e :
                <<[str |-> slice(s, i, e), index |-> i - 1]>> \o findAll(pat, s, e + 1))))

----------------------------------------------------------------------------
(* Texts.  A text is a sequence of fragments, each a string s placed at   *)
(* the 0-based offset at; the characters between two fragments are filler *)
(* (two or more blanks and punctuation) in which no pattern matches and   *)
(* which no match runs across.                                            *)

RECURSIVE flatten(_)
flatten(ss) == IF ss = <<>> THEN <<>> ELSE Head(ss) \o flatten(Tail(ss))

mapSeq(sq, F(_)) == [k \in 1..Len(sq) |-> F(sq[k])]

\* regex.exec(text) in a loop / text.match(regex): every match, in text order
matchesIn(pat, txt) ==
    LET shift(frag) ==
            With(findAll(pat, frag.s, 1), LAMBDA ms :
                [k \in 1..Len(ms) |-> [str |-> ms[k].str, index |-> frag.at + ms[k].index]])
    IN  flatten(mapSeq(txt, shift))

\* text.indexOf(t)
textIndexOf(txt, t) ==
    With({k \in 1..Len(txt) : includes(txt[k].s, t)}, LAMBDA hits :
        IF hits = {} THEN -1
        ELSE txt[Min(hits)].at + indexOf(txt[Min(hits)].s, t))

\* text.toLowerCase()
textToLowerCase(txt) == [k \in 1..Len(txt) |-> [s |-> toLowerCase(txt[k].s), at |-> txt[k].at]]

endsWith(s, t) == Len(s) >= Len(t) /\ slice(s, Len(s) - Len(t) + 1, Len(s)) = t

----------------------------------------------------------------------------
(* processTextLocal *)

THREAT_ACTOR == "THREAT_ACTOR"
MALWARE == "MALWARE"
IP_ADDRESS == "IP_ADDRESS"
DOMAIN_NAME == "DOMAIN"   \* EntityType.DOMAIN
CVE == "CVE"
REPORT == "REPORT"
EntityType ==
    {THREAT_ACTOR, MALWARE, IP_ADDRESS, DOMAIN_NAME, CVE, "TTP", "ORGANIZATION", "LOCATION", REPORT}

KNOWN_ACTORS ==
    <<"APT28", "Lazarus", "Fancy Bear", "Cozy Bear", "Sandworm", "Equation Group",
      "OilRig", "MuddyWater", "Kimsuky", "DarkSide">>
KNOWN_MALWARE ==
    <<"Emotet", "Trickbot", "Cobalt Strike", "Mimikatz", "Ryuk", "WannaCry",
      "Pegasus", "Manuscrypt", "AppleJeus">>

RegexConfidence == 95
DictionaryConfidence == 90
HeuristicConfidence == 75
Window == 350
CorrelatedWeight == 50
ExplicitWeight == 100

\* the false-positive filter applied to DOMAIN matches
domainRejected(name) ==
    With(toLowerCase(name), LAMBDA d :
        endsWith(d, ".png") \/ endsWith(d, ".jpg") \/ Len(d) < 4 \/ ~includes(d, "."))

\* extractRegex(regex, type)
extractRegex(pat, type, txt) ==
    With(SelectSeq(matchesIn(pat, txt),
                   LAMBDA m : ~(type = DOMAIN_NAME /\ domainRejected(m.str))), LAMBDA kept :
        [k \in 1..Len(kept) |->
            [name |-> kept[k].str, type |-> type,
             confidence |-> RegexConfidence, index |-> kept[k].index]])

\* KNOWN_ACTORS.forEach / KNOWN_MALWARE.forEach
extractKnown(list, type, txt) ==
    With(textToLowerCase(txt), LAMBDA low :
    With(SelectSeq(list, LAMBDA n : textIndexOf(low, toLowerCase(n)) # -1), LAMBDA found :
        [k \in 1..Len(found) |->
            [name |-> found[k], type |-> type, confidence |-> DictionaryConfidence,
             index |-> textIndexOf(low, toLowerCase(found[k]))]]))

\* the heuristic pass over capitalized phrases
extractGroups(txt) ==
    With(matchesIn("GROUP", txt), LAMBDA ms :
        [k \in 1..Len(ms) |->
            [name |-> ms[k].str, type |-> THREAT_ACTOR, confidence |-> HeuristicConfidence,
             index |-> textIndexOf(txt, ms[k].str)]])

\* the candidates array at the end of passes A, B and C
candidatesOf(txt) ==
    extractRegex("IP_ADDRESS", IP_ADDRESS, txt)
    \o extractRegex("CVE", CVE, txt)
    \o extractRegex("DOMAIN", DOMAIN_NAME, txt)
    \o extractKnown(KNOWN_ACTORS, THREAT_ACTOR, txt)
    \o extractKnown(KNOWN_MALWARE, MALWARE, txt)
    \o extractGroups(txt)

ExtractedDescription == "Extracted via internal engine heuristics."

\* a deduplication in which a later candidate of a key overwrites the name, the
\* type and the confidence of the entity created for that key
RECURSIVE dedupeLastWins(_, _, _, _, _)
dedupeLastWins(cands, acc, firstId, timestamp, sourceId) ==
    IF cands = <<>> THEN acc
    ELSE LET cand == Head(cands)
             created == [id |-> firstId + Len(acc),
                         name |-> cand.name,
                         aliases |-> {},
                         type |-> cand.type,
                         confidenceScore |-> cand.confidence,
                         firstSeen |-> timestamp,
                         lastSeen |-> timestamp,
                         sources |-> {sourceId},
                         isEnriched |-> FALSE,
                         isValidated |-> FALSE,
                         description |-> ExtractedDescription,
                         sectors |-> {},
                         tools |-> {}]
         IN  With(toLowerCase(cand.name), LAMBDA key :
             dedupeLastWins(Tail(cands),
                 IF \E k \in 1..Len(acc) : toLowerCase(acc[k].name) = key
                 THEN [k \in 1..Len(acc) |->
                          IF toLowerCase(acc[k].name) = key
                          THEN [acc[k] EXCEPT !.name = cand.name, !.type = cand.type,
                                              !.confidenceScore = cand.confidence]
                          ELSE acc[k]]
                 ELSE Append(acc, created),
                 firstId, timestamp, sourceId))

\* pass D: uniqueMap, then Array.from(uniqueMap.values()); the k-th entity
\* created takes the k-th fresh identifier after firstId
RECURSIVE dedupeCandidates(_, _, _, _, _)
dedupeCandidates(cands, acc, firstId, timestamp, sourceId) ==
    IF cands = <<>> THEN acc
    ELSE LET cand == Head(cands)
             key == toLowerCase(cand.name)
             has == \E k \in 1..Len(acc) : toLowerCase(acc[k].name) = key
             created == [id |-> firstId + Len(acc),
                         name |-> cand.name,
                         aliases |-> {},
                         type |-> cand.type,
                         confidenceScore |-> cand.confidence,
                         firstSeen |-> timestamp,
                         lastSeen |-> timestamp,
                         sources |-> {sourceId},
                         isEnriched |-> FALSE,
                         isValidated |-> FALSE,
                         description |-> ExtractedDescription,
                         sectors |-> {},
                         tools |-> {}]
         IN  dedupeCandidates(Tail(cands), IF has THEN acc ELSE Append(acc, created),
                              firstId, timestamp, sourceId)

abs(x) == IF x < 0 THEN -x ELSE x

\* Array.prototype.find by lowercased name: the index of the first hit, 0 if none
findByName(list, name) ==
    With({k \in 1..Len(list) : toLowerCase(list[k].name) = toLowerCase(name)}, LAMBDA hits :
        IF hits = {} THEN 0 ELSE Min(hits))

\* a scan that also links two candidates exactly Window characters apart
correlateUpToWindow(cands, entityList) ==
    LET n == Len(cands)
        pairs == [k \in 1..(n * n) |-> <<((k - 1) \div n) + 1, ((k - 1) % n) + 1>>]
        linked(p) ==
            /\ p[1] < p[2]
            /\ cands[p[1]].type # cands[p[2]].type
            /\ abs(cands[p[1]].index - cands[p[2]].index) <= Window
            /\ findByName(entityList, cands[p[1]].name) # 0
            /\ findByName(entityList, cands[p[2]].name) # 0
    IN  With(SelectSeq(pairs, linked), LAMBDA kept :
            [k \in 1..Len(kept) |->
                [source |-> entityList[findByName(entityList, cands[kept[k][1]].name)].id,
                 target |-> entityList[findByName(entityList, cands[kept[k][2]].name)].id,
                 type |-> "CORRELATED_TO",
                 weight |-> CorrelatedWeight]])

\* pass E: the i < j scan over the candidates
correlate(cands, entityList) ==
    LET n == Len(cands)
        pairs == [k \in 1..(n * n) |-> <<((k - 1) \div n) + 1, ((k - 1) % n) + 1>>]
        linked(p) ==
            /\ p[1] < p[2]
            /\ cands[p[1]].type # cands[p[2]].type
            /\ abs(cands[p[1]].index - cands[p[2]].index) < Window
            /\ findByName(entityList, cands[p[1]].name) # 0
            /\ findByName(entityList, cands[p[2]].name) # 0
    IN  With(SelectSeq(pairs, linked), LAMBDA kept :
            [k \in 1..Len(kept) |->
                [source |-> entityList[findByName(entityList, cands[kept[k][1]].name)].id,
                 target |-> entityList[findByName(entityList, cands[kept[k][2]].name)].id,
                 type |-> "CORRELATED_TO",
                 weight |-> CorrelatedWeight]])

\* passes D and E over the candidates array
resolveCandidates(cands, sourceId, firstId, timestamp) ==
    With(dedupeCandidates(cands, <<>>, firstId, timestamp, sourceId), LAMBDA entityList :
        [entities |-> entityList, relationships |-> correlate(cands, entityList)])

processTextLocal(txt, sourceId, firstId, timestamp) ==
    resolveCandidates(candidatesOf(txt), sourceId, firstId, timestamp)

----------------------------------------------------------------------------
(* mergeKnowledgeGraph (services/mlEngine.ts) *)

charSet(s) == {charAt(s, i) : i \in 1..Len(s)}

\* getSimilarity: the quotient intersection.size / union.size, kept as the
\* pair of its terms
getSimilarity(str1, str2) ==
    LET set1 == charSet(toLowerCase(str1))
        set2 == charSet(toLowerCase(str2))
    IN  [intersection |-> Cardinality(set1 \cap set2), union |-> Cardinality(set1 \cup set2)]

\* aboveThreshold with >= in place of >
atLeastThreshold(sim) == sim.union # 0 /\ 5 * sim.intersection >= 4 * sim.union

\* sim > 0.8 in floating point: 0/0 is NaN and compares false
aboveThreshold(sim) == sim.union # 0 /\ 5 * sim.intersection > 4 * sim.union

\* Array.prototype.find/findIndex: index of the first element satisfying P, 0 if none
findFirst(list, P(_)) ==
    With({k \in 1..Len(list) : P(list[k])}, LAMBDA hits :
        IF hits = {} THEN 0 ELSE Min(hits))

\* the identifiers of the entities of a collection
ids(list) == {list[k].id : k \in 1..Len(list)}

\* Map.prototype.get(k) || k
mapGet(map, k) == IF k \in DOMAIN map THEN map[k] ELSE k

\* Map.prototype.set
mapSet(map, k, v) == [x \in (DOMAIN map) \cup {k} |-> IF x = k THEN v ELSE map[x]]

EmptyMap == [x \in {} |-> 0]

\* matchIndex with the names of the exact match compared as they are written
matchIndexCaseSensitive(result, newE) ==
    With(findFirst(result, LAMBDA e : e.name = newE.name), LAMBDA exact :
        IF exact # 0 THEN exact
        ELSE IF newE.type = THREAT_ACTOR
             THEN findFirst(result, LAMBDA e : e.type = newE.type
                                               /\ aboveThreshold(getSimilarity(e.name, newE.name)))
             ELSE 0)

\* matchIndex with an exact match that also requires the type to be equal
matchIndexTyped(result, newE) ==
    With(findFirst(result, LAMBDA e : toLowerCase(e.name) = toLowerCase(newE.name)
                                      /\ e.type = newE.type), LAMBDA exact :
        IF exact # 0 THEN exact
        ELSE IF newE.type = THREAT_ACTOR
             THEN findFirst(result, LAMBDA e : e.type = newE.type
                                               /\ aboveThreshold(getSimilarity(e.name, newE.name)))
             ELSE 0)

\* steps 1 and 2 of the forEach body: the index of the match in result, 0 if none
matchIndex(result, newE) ==
    With(findFirst(result, LAMBDA e : toLowerCase(e.name) = toLowerCase(newE.name)), LAMBDA exact :
        IF exact # 0 THEN exact
        ELSE IF newE.type = THREAT_ACTOR
             THEN findFirst(result, LAMBDA e : e.type = newE.type
                                               /\ aboveThreshold(getSimilarity(e.name, newE.name)))
             ELSE 0)

\* foldInto with the score overwritten by the incoming one instead of Math.max
foldIntoOverwritingScore(match, newE) ==
    [match EXCEPT !.lastSeen = newE.lastSeen,
                  !.sources = match.sources \cup newE.sources,
                  !.confidenceScore = newE.confidenceScore]

\* the "Merge" branch: the assignments made to the matched record
foldInto(match, newE) ==
    [match EXCEPT !.lastSeen = newE.lastSeen,
                  !.sources = match.sources \cup newE.sources,
                  !.confidenceScore = Max({match.confidenceScore, newE.confidenceScore})]

\* mergeLoop with a folded entity mapped to itself instead of to its match
RECURSIVE mergeLoopSelfMapped(_, _, _)
mergeLoopSelfMapped(result, idMap, newEntities) ==
    IF newEntities = <<>> THEN [merged |-> result, map |-> idMap]
    ELSE With(Head(newEntities), LAMBDA newE :
         With(matchIndex(result, newE), LAMBDA m :
            IF m # 0
            THEN mergeLoopSelfMapped([result EXCEPT ![m] = foldInto(result[m], newE)],
                                     mapSet(idMap, newE.id, newE.id), Tail(newEntities))
            ELSE mergeLoopSelfMapped(Append(result, newE),
                                     mapSet(idMap, newE.id, newE.id), Tail(newEntities))))

\* mergeLoop with an unmatched entity placed at the head of result (unshift)
\* instead of at its end
RECURSIVE mergeLoopPrepending(_, _, _)
mergeLoopPrepending(result, idMap, newEntities) ==
    IF newEntities = <<>> THEN [merged |-> result, map |-> idMap]
    ELSE With(Head(newEntities), LAMBDA newE :
         With(matchIndex(result, newE), LAMBDA m :
            IF m # 0
            THEN mergeLoopPrepending([result EXCEPT ![m] = foldInto(result[m], newE)],
                                     mapSet(idMap, newE.id, result[m].id), Tail(newEntities))
            ELSE mergeLoopPrepending(<<newE>> \o result,
                                     mapSet(idMap, newE.id, newE.id), Tail(newEntities))))

\* the forEach over newEntities
RECURSIVE mergeLoop(_, _, _)
mergeLoop(result, idMap, newEntities) ==
    IF newEntities = <<>> THEN [merged |-> result, map |-> idMap]
    ELSE With(Head(newEntities), LAMBDA newE :
         With(matchIndex(result, newE), LAMBDA m :
            IF m # 0
            THEN mergeLoop([result EXCEPT ![m] = foldInto(result[m], newE)],
                           mapSet(idMap, newE.id, result[m].id), Tail(newEntities))
            ELSE mergeLoop(Append(result, newE),
                           mapSet(idMap, newE.id, newE.id), Tail(newEntities))))

\* The caller's two arrays as they read once mergeKnowledgeGraph has returned.
\* result = [...currentEntities] copies the array, not the records, and the
\* merge branch assigns to the fields of match: the records of currentEntities
\* are the first records of merged, and an incoming record that was pushed is
\* the record of merged with its id.
callerView(currentEntities, newEntities, res) ==
    [existing |-> SubSeq(res.merged, 1, Len(currentEntities)),
     incoming |-> [k \in 1..Len(newEntities) |->
                      IF res.map[newEntities[k].id] = newEntities[k].id
                      THEN res.merged[CHOOSE i \in 1..Len(res.merged) :
                                         res.merged[i].id = newEntities[k].id]
                      ELSE newEntities[k]]]

\* mergeKnowledgeGraph that appends every incoming entity without matching
mergeWithoutMatching(currentEntities, newEntities) ==
    [merged |-> currentEntities \o newEntities,
     map |-> [x \in ids(newEntities) |-> x]]

mergeKnowledgeGraph(currentEntities, newEntities) ==
    mergeLoop(currentEntities, EmptyMap, newEntities)

----------------------------------------------------------------------------
(* The relationship step of the local pipeline (App.tsx, handleIngest) *)

\* Array.from(new Set(list.map(JSON.stringify))).map(JSON.parse): the first
\* occurrence of every distinct serialized record, in order
RECURSIVE uniqueByJSON(_, _)
uniqueByJSON(list, acc) ==
    IF list = <<>> THEN acc
    ELSE uniqueByJSON(Tail(list),
                      IF \E k \in 1..Len(acc) : acc[k] = Head(list) THEN acc
                      ELSE Append(acc, Head(list)))

\* remap that rewrites the source only
remapSourceOnly(r, map) == [r EXCEPT !.source = mapGet(map, r.source)]

\* the object built for one incoming relationship: ...r with both endpoints remapped
remap(r, map) == [r EXCEPT !.source = mapGet(map, r.source), !.target = mapGet(map, r.target)]

\* reconcileLocal with the incoming relationships appended under the ids the
\* extractor gave them
reconcileLocalUnmapped(prevRels, incomingRels, map) ==
    LET updatedIncomingRels == SelectSeq(incomingRels, LAMBDA r : r.source # r.target)
    IN  uniqueByJSON(prevRels \o updatedIncomingRels, <<>>)

\* the updater passed to setRelationships
reconcileLocal(prevRels, incomingRels, map) ==
    LET remapped == [k \in 1..Len(incomingRels) |-> remap(incomingRels[k], map)]
        updatedIncomingRels == SelectSeq(remapped, LAMBDA r : r.source # r.target)
    IN  uniqueByJSON(prevRels \o updatedIncomingRels, <<>>)

----------------------------------------------------------------------------
(* analyzeThreatText (services/geminiService.ts): the transformation of   *)
(* the parsed model response into entities and relationships.  parsed is  *)
(* [entities, relationships], the entities [name, aliases, type, sectors, *)
(* tools, confidenceScore, description] and the relationships             *)
(* [sourceEntityName, targetEntityName, relationshipType].                *)

\* entityMap after the map over parsed.entities: a later entity overwrites the
\* key of an earlier one; 0 stands for undefined
entityMapGet(parsedEntities, firstId, n) ==
    LET owners == {k \in 1..Len(parsedEntities) :
                      n = parsedEntities[k].name \/ n \in parsedEntities[k].aliases}
    IN  IF owners = {} THEN 0 ELSE firstId + Max(owners) - 1

analyzeThreatText(parsed, sourceId, firstId, timestamp) ==
    LET ents == [k \in 1..Len(parsed.entities) |->
                    [id |-> firstId + k - 1,
                     name |-> parsed.entities[k].name,
                     aliases |-> parsed.entities[k].aliases,
                     type |-> parsed.entities[k].type,
                     confidenceScore |-> parsed.entities[k].confidenceScore,
                     firstSeen |-> timestamp,
                     lastSeen |-> timestamp,
                     sources |-> {sourceId},
                     isEnriched |-> FALSE,
                     isValidated |-> FALSE,
                     description |-> parsed.entities[k].description,
                     sectors |-> parsed.entities[k].sectors,
                     tools |-> parsed.entities[k].tools]]
        resolved == SelectSeq(parsed.relationships,
                        LAMBDA r : /\ entityMapGet(parsed.entities, firstId, r.sourceEntityName) # 0
                                   /\ entityMapGet(parsed.entities, firstId, r.targetEntityName) # 0)
    IN  [entities |-> ents,
         relationships |->
            [k \in 1..Len(resolved) |->
                [source |-> entityMapGet(parsed.entities, firstId, resolved[k].sourceEntityName),
                 target |-> entityMapGet(parsed.entities, firstId, resolved[k].targetEntityName),
                 type |-> resolved[k].relationshipType,
                 weight |-> ExplicitWeight]]]

----------------------------------------------------------------------------
(* The AI pipeline of App.tsx: the updater passed to setEntities and the  *)
(* updater it passes to setRelationships.                                 *)

\* new Date().toLocaleDateString() at clock reading t
DayDigits == <<"1", "2", "3", "4", "5", "6", "7", "8", "9">>
toLocaleDateString(t) == "11/" \o DayDigits[t + 1] \o "/2026"

\* the predicate of newEntities.findIndex
normalizedMatch(e, incoming) ==
    LET nameMatch == toLowerCase(e.name) = toLowerCase(incoming.name)
        aliasMatch ==
            \/ \E a \in e.aliases : toLowerCase(a) = toLowerCase(incoming.name)
            \/ \E a \in incoming.aliases : toLowerCase(a) = toLowerCase(e.name)
        crossAliasMatch ==
            \E ea \in e.aliases : \E ia \in incoming.aliases : toLowerCase(ia) = toLowerCase(ea)
    IN  (nameMatch \/ aliasMatch \/ crossAliasMatch) /\ e.type = incoming.type

\* the "ENRICHMENT PHASE" branch: the record that replaces newEntities[existingIndex]
enrich(existing, incoming, timestamp) ==
    LET newDescription ==
            IF incoming.description # "" /\ ~includes(existing.description, incoming.description)
            THEN existing.description \o "\n\n[Intel Update " \o toLocaleDateString(timestamp)
                                      \o "]: " \o incoming.description
            ELSE existing.description
    IN  [existing EXCEPT !.aliases = existing.aliases \cup incoming.aliases,
                         !.sectors = existing.sectors \cup incoming.sectors,
                         !.tools = existing.tools \cup incoming.tools,
                         !.lastSeen = timestamp,
                         !.sources = existing.sources \cup incoming.sources,
                         !.description = newDescription,
                         !.confidenceScore =
                             Max({existing.confidenceScore, incoming.confidenceScore})]

RECURSIVE normalizeLoop(_, _, _, _)
normalizeLoop(newEntities, entityIdMap, incomingList, timestamp) ==
    IF incomingList = <<>> THEN [merged |-> newEntities, map |-> entityIdMap]
    ELSE With(Head(incomingList), LAMBDA incoming :
         With(findFirst(newEntities, LAMBDA e : normalizedMatch(e, incoming)), LAMBDA existingIndex :
            IF existingIndex # 0
            THEN normalizeLoop(
                   [newEntities EXCEPT ![existingIndex] =
                                           enrich(newEntities[existingIndex], incoming, timestamp)],
                   mapSet(entityIdMap, incoming.id, newEntities[existingIndex].id),
                   Tail(incomingList), timestamp)
            ELSE normalizeLoop(Append(newEntities, incoming),
                               mapSet(entityIdMap, incoming.id, incoming.id),
                               Tail(incomingList), timestamp)))

\* the setEntities updater up to the relationship step
normalizeEntities(prevEntities, reportEntity, incomingList, timestamp) ==
    LET withReport ==
            IF \E k \in 1..Len(prevEntities) : prevEntities[k].id = reportEntity.id
            THEN prevEntities ELSE Append(prevEntities, reportEntity)
    IN  normalizeLoop(withReport, EmptyMap, incomingList, timestamp)

\* "Deduplicate": append newRel unless its (source, target, type) is present
RECURSIVE dedupeByTriple(_, _)
dedupeByTriple(mergedRels, validRelationships) ==
    IF validRelationships = <<>> THEN mergedRels
    ELSE LET newRel == Head(validRelationships)
             exists == \E k \in 1..Len(mergedRels) :
                          /\ mergedRels[k].source = newRel.source
                          /\ mergedRels[k].target = newRel.target
                          /\ mergedRels[k].type = newRel.type
         IN  dedupeByTriple(IF exists THEN mergedRels ELSE Append(mergedRels, newRel),
                            Tail(validRelationships))

\* result.relationships.map(...).filter(Boolean)
validOf(resultRels, entityIdMap) ==
    LET remapped == [k \in 1..Len(resultRels) |-> remap(resultRels[k], entityIdMap)]
    IN  SelectSeq(remapped, LAMBDA r : r.source # r.target)

\* "Add Links from Report -> Entities"
mentionsOf(resultEntities, entityIdMap, reportId) ==
    [k \in 1..Len(resultEntities) |->
        [source |-> reportId,
         target |-> mapGet(entityIdMap, resultEntities[k].id),
         type |-> "MENTIONS",
         weight |-> ExplicitWeight]]

\* the updater passed to setRelationships
correlateRelationships(prevRels, resultRels, resultEntities, entityIdMap, reportId) ==
    dedupeByTriple(prevRels, validOf(resultRels, entityIdMap)
                             \o mentionsOf(resultEntities, entityIdMap, reportId))

----------------------------------------------------------------------------
(* handleIngest, local pipeline (App.tsx) *)

\* the "Report Node" entity of a feed item
reportEntityOf(item, reportId) ==
    [id |-> reportId,
     name |-> "REPORT: " \o item.title,
     aliases |-> {},
     type |-> REPORT,
     confidenceScore |-> 100,
     firstSeen |-> item.timestamp,
     lastSeen |-> item.timestamp,
     sources |-> {item.id},
     isEnriched |-> FALSE,
     isValidated |-> TRUE,
     description |-> "Source: " \o item.sourceName \o "\nURL: " \o item.url,
     sectors |-> {},
     tools |-> {}]

\* step C: one MENTIONS link from the report to every extracted entity
mentionLinks(reportId, ents) ==
    [k \in 1..Len(ents) |->
        [source |-> reportId, target |-> ents[k].id, type |-> "MENTIONS", weight |-> ExplicitWeight]]

\* newReport of a feed item; its summary, a prefix of the content, is left out
reportOf(item, reportId) ==
    [id |-> reportId, title |-> item.title, source |-> item.sourceName,
     timestamp |-> item.timestamp, url |-> item.url]

\* the for loop over the items: steps A, B and C.  acc is [entities, rels,
\* reports, next] where reports are the ones setReports has been called with,
\* the latest first, and next is the next unused identifier; the report takes
\* one identifier, the extractor the following ones
RECURSIVE collectItems(_, _, _)
collectItems(items, acc, timestamp) ==
    IF items = <<>> THEN acc
    ELSE With(Head(items), LAMBDA item :
         With(acc.next, LAMBDA reportId :
         With(processTextLocal(item.content, reportId, reportId + 1, timestamp), LAMBDA result :
            collectItems(Tail(items),
               [entities |-> acc.entities \o <<reportEntityOf(item, reportId)>> \o result.entities,
                reports |-> <<reportOf(item, reportId)>> \o acc.reports,
                rels |-> acc.rels \o mentionLinks(reportId, result.entities) \o result.relationships,
                next |-> reportId + 1 + Len(result.entities)],
               timestamp))))

----------------------------------------------------------------------------
(* runQuery (components/ThreatQuery.tsx): the query pattern *)

UpperOf == [c \in LowerSet |-> UpperChars[CHOOSE i \in 1..26 : LowerChars[i] = c]]

upperChar(c) == IF isLower(c) THEN UpperOf[c] ELSE c

\* String.prototype.toUpperCase
RECURSIVE toUpperCase(_)
toUpperCase(s) ==
    IF Len(s) = 0 THEN ""
    ELSE upperChar(charAt(s, 1)) \o toUpperCase(slice(s, 2, Len(s)))

\* String.prototype.trim
trim(s) ==
    With({i \in 1..Len(s) : ~isSpace(charAt(s, i))}, LAMBDA ink :
        IF ink = {} THEN "" ELSE slice(s, Min(ink), Max(ink)))

\* the class . of a regular expression without the s flag
isDot(c) == c # "" /\ c \notin {"\n", "\r"}

\* a keyword of a pattern with the i flag, at position p of s
keywordAt(s, p, kw) == toUpperCase(slice(s, p, p + Len(kw) - 1)) = kw

\* the last position of the run of blanks that starts at p; p - 1 when s[p] is
\* not a blank
spaceRunEnd(s, p) == Max({p - 1} \cup {q \in p..Len(s) : allChars(s, p, q, isSpace)})

\* the last position of the run of word characters that starts at p; p - 1 when
\* s[p] is not a word character
wordRunEnd(s, p) == Max({p - 1} \cup {q \in p..Len(s) : allChars(s, p, q, isWordChar)})

\* (?:\s+SHOW\s+(.+))?$ at position p: the captured clause, "" standing for an
\* absent group; ok tells whether the rest of the pattern matches at p
showAt(s, p) ==
    IF p = Len(s) + 1 THEN [ok |-> TRUE, show |-> ""]
    ELSE With(spaceRunEnd(s, p), LAMBDA b :
         With(spaceRunEnd(s, b + 5), LAMBDA d :
         With({k \in (b + 5)..d : k + 1 <= Len(s) /\ allChars(s, k + 1, Len(s), isDot)},
              LAMBDA starts :
            IF b >= p /\ keywordAt(s, b + 1, "SHOW") /\ starts # {}
            THEN [ok |-> TRUE, show |-> slice(s, Max(starts) + 1, Len(s))]
            ELSE [ok |-> FALSE, show |-> ""])))

\* (?:\s+WHERE\s+(.+?))?(?:\s+SHOW\s+(.+))?$ at position p: the blanks after
\* WHERE are greedy, the condition clause is lazy, and the WHERE group is tried
\* before it is skipped
clausesAt(s, p) ==
    With(spaceRunEnd(s, p), LAMBDA b :
    With(spaceRunEnd(s, b + 6), LAMBDA d :
    With({kq \in ((b + 6)..d) \X ((b + 7)..Len(s)) :
              /\ kq[1] < kq[2]
              /\ allChars(s, kq[1] + 1, kq[2], isDot)
              /\ showAt(s, kq[2] + 1).ok}, LAMBDA fits :
        IF b >= p /\ keywordAt(s, b + 1, "WHERE") /\ fits # {}
        THEN With(Max({kq[1] : kq \in fits}), LAMBDA k :
             With(Min({kq[2] : kq \in {x \in fits : x[1] = k}}), LAMBDA q :
                [ok |-> TRUE, where |-> slice(s, k + 1, q), show |-> showAt(s, q + 1).show]))
        ELSE [ok |-> showAt(s, p).ok, where |-> "", show |-> showAt(s, p).show])))

\* the match of FROM\s+(\w+)... that starts at position i
partsAt(s, i) ==
    With(spaceRunEnd(s, i + 4), LAMBDA a :
    With(wordRunEnd(s, a + 1), LAMBDA w :
        IF keywordAt(s, i, "FROM") /\ a >= i + 4 /\ w >= a + 1 /\ clausesAt(s, w + 1).ok
        THEN [ok |-> TRUE, type |-> slice(s, a + 1, w),
              where |-> clausesAt(s, w + 1).where, show |-> clausesAt(s, w + 1).show]
        ELSE [ok |-> FALSE, type |-> "", where |-> "", show |-> ""]))

\* normalized.match(/FROM\s+(\w+)(?:\s+WHERE\s+(.+?))?(?:\s+SHOW\s+(.+))?$/i): the
\* match with the leftmost start
matchQuery(s) ==
    With({i \in 1..Len(s) : partsAt(s, i).ok}, LAMBDA starts :
        IF starts = {} THEN [ok |-> FALSE, type |-> "", where |-> "", show |-> ""]
        ELSE partsAt(s, Min(starts)))

----------------------------------------------------------------------------
(* runQuery: the conditions of the WHERE clause *)

\* whereClause.split(/\s+AND\s+/i): the pieces between the successive leftmost
\* matches of the separator
RECURSIVE splitAnd(_)
splitAnd(s) ==
    With({i \in 1..Len(s) :
             /\ isSpace(charAt(s, i))
             /\ keywordAt(s, spaceRunEnd(s, i) + 1, "AND")
             /\ spaceRunEnd(s, spaceRunEnd(s, i) + 4) >= spaceRunEnd(s, i) + 4},
         LAMBDA seps :
        IF seps = {} THEN <<s>>
        ELSE With(Min(seps), LAMBDA i :
                <<slice(s, 1, i - 1)>>
                \o splitAnd(slice(s, spaceRunEnd(s, spaceRunEnd(s, i) + 4) + 1, Len(s)))))

\* the alternatives of the operator group, in the order the pattern tries them
Operators == <<"==", "!=", ">", "<", "CONTAINS">>

\* the operator the pattern matches at position p, as written in s; "" if none
operatorAt(s, p) ==
    With({n \in 1..Len(Operators) : keywordAt(s, p, Operators[n])}, LAMBDA alts :
        IF alts = {} THEN "" ELSE slice(s, p, p + Len(Operators[Min(alts)]) - 1))

\* \s*(==|!=|>|<|CONTAINS)\s*(.+) after a field that ends at position w: the
\* blanks are greedy and the value needs one character
conditionAfter(s, w) ==
    With(spaceRunEnd(s, w + 1), LAMBDA g :
    With(operatorAt(s, g + 1), LAMBDA op :
    With(g + Len(op), LAMBDA o :
    With({h \in o..spaceRunEnd(s, o + 1) : isDot(charAt(s, h + 1))}, LAMBDA starts :
        IF op # "" /\ starts # {}
        THEN With(Max(starts), LAMBDA h :
                [ok |-> TRUE, op |-> op,
                 val |-> slice(s, h + 1,
                               Max({q \in (h + 1)..Len(s) : allChars(s, h + 1, q, isDot)}))])
        ELSE [ok |-> FALSE, op |-> "", val |-> ""]))))

\* the ends of the field (\w+) for which the pattern matches from position i
fieldEnds(s, i) == {w \in i..wordRunEnd(s, i) : conditionAfter(s, w).ok}

\* valRaw.replace(/['"]/g, '')
RECURSIVE stripQuotes(_)
stripQuotes(s) ==
    IF Len(s) = 0 THEN ""
    ELSE (IF charAt(s, 1) \in {"'", "\""} THEN "" ELSE charAt(s, 1))
         \o stripQuotes(slice(s, 2, Len(s)))

\* cond.match(/(\w+)\s*(==|!=|>|<|CONTAINS)\s*(.+)/i) and the value with its
\* quotes stripped: the leftmost start, the longest field from it
matchCondition(cond) ==
    With({i \in 1..Len(cond) : fieldEnds(cond, i) # {}}, LAMBDA starts :
        IF starts = {} THEN [ok |-> FALSE, field |-> "", op |-> "", val |-> ""]
        ELSE With(Min(starts), LAMBDA i :
             With(Max(fieldEnds(cond, i)), LAMBDA w :
                [ok |-> TRUE, field |-> slice(cond, i, w),
                 op |-> conditionAfter(cond, w).op,
                 val |-> trim(stripQuotes(conditionAfter(cond, w).val))])))

----------------------------------------------------------------------------
(* runQuery: values and comparisons.  A number is kept as ten thousand    *)
(* times its value, so that a score (a hundredth) divided by a hundred is *)
(* still an integer; NaN is a value of its own.                           *)

NaN == [nan |-> TRUE, x |-> 0]

number(x) == [nan |-> FALSE, x |-> x]

Digits == <<"0", "1", "2", "3", "4", "5", "6", "7", "8", "9">>

digitValue(c) == (CHOOSE i \in 1..10 : Digits[i] = c) - 1

\* the last position of the run of digits that starts at p; p - 1 when s[p] is
\* not a digit
digitRunEnd(s, p) == Max({p - 1} \cup {q \in p..Len(s) : allChars(s, p, q, isDigit)})

\* the value of the decimal digits s
RECURSIVE natOf(_)
natOf(s) ==
    IF Len(s) = 0 THEN 0
    ELSE 10 * natOf(slice(s, 1, Len(s) - 1)) + digitValue(charAt(s, Len(s)))

\* the decimal digits of n
RECURSIVE natText(_)
natText(n) == IF n < 10 THEN Digits[n + 1] ELSE natText(n \div 10) \o Digits[(n % 10) + 1]

\* parseFloat(val), for literals of at most two decimals: an optional sign, the
\* longest prefix of digits, a point and digits; NaN when that prefix has no digit
parseFloat(val) ==
    With(IF charAt(val, 1) \in {"-", "+"} THEN 2 ELSE 1, LAMBDA p :
    With(digitRunEnd(val, p), LAMBDA a :
    With(IF charAt(val, a + 1) = "." THEN digitRunEnd(val, a + 2) ELSE a, LAMBDA f :
        IF a < p /\ f < a + 2 THEN NaN
        ELSE With(natOf(slice(val, p, a)) * 100
                  + natOf(slice(slice(val, a + 2, f) \o "00", 1, 2)), LAMBDA hundredths :
                number((IF charAt(val, 1) = "-" THEN -1 ELSE 1) * hundredths * 100)))))

\* a conversion that takes every literal for a percentage
percentAlways(numVal) ==
    IF ~numVal.nan THEN number(numVal.x \div 100) ELSE numVal

\* if (numVal > 1) numVal = numVal / 100
percentOf(numVal) ==
    IF ~numVal.nan /\ numVal.x > 10000 THEN number(numVal.x \div 100) ELSE numVal

\* entity.confidenceScore as a number; the model keeps a score in hundredths
scoreNumber(score) == number(score * 100)

\* String(n) for a number of at most four decimals
numberText(n) ==
    IF n.nan THEN "NaN"
    ELSE With(abs(n.x), LAMBDA x :
         With(natText(10000 + (x % 10000)), LAMBDA frac :
         With(Max({0} \cup {k \in 2..5 : charAt(frac, k) # "0"}), LAMBDA lastDigit :
            (IF n.x < 0 THEN "-" ELSE "") \o natText(x \div 10000)
            \o (IF lastDigit = 0 THEN "" ELSE "." \o slice(frac, 2, lastDigit)))))

\* the characters of the queries and of the graph, in the order of their codes
CodeOrder ==
    "\t\n !\"#$%&'()*+,-./0123456789:;<=>?@ABCDEFGHIJKLMNOPQRSTUVWXYZ[]^_abcdefghijklmnopqrstuvwxyz{|}~"

codeOf(c) == CHOOSE i \in 1..Len(CodeOrder) : charAt(CodeOrder, i) = c

\* a < b on strings: the comparison of the code units at the first difference
RECURSIVE stringLess(_, _)
stringLess(a, b) ==
    IF Len(b) = 0 THEN FALSE
    ELSE IF Len(a) = 0 THEN TRUE
    ELSE IF charAt(a, 1) = charAt(b, 1)
         THEN stringLess(slice(a, 2, Len(a)), slice(b, 2, Len(b)))
         ELSE codeOf(charAt(a, 1)) < codeOf(charAt(b, 1))

\* compare(a, op, b) on two numbers
compareNumbers(a, op, b) ==
    CASE op = "==" -> ~a.nan /\ ~b.nan /\ a.x = b.x
      [] op = "!=" -> a.nan \/ b.nan \/ a.x # b.x
      [] op = ">" -> ~a.nan /\ ~b.nan /\ a.x > b.x
      [] op = "<" -> ~a.nan /\ ~b.nan /\ a.x < b.x
      [] op = "CONTAINS" -> includes(numberText(a), numberText(b))
      [] OTHER -> FALSE

\* compare(a, op, b) on two strings
compareStrings(a, op, b) ==
    CASE op = "==" -> a = b
      [] op = "!=" -> a # b
      [] op = ">" -> stringLess(b, a)
      [] op = "<" -> stringLess(a, b)
      [] op = "CONTAINS" -> includes(a, b)
      [] OTHER -> FALSE

----------------------------------------------------------------------------
(* runQuery: selection, projection and the handler.  An entity of the     *)
(* graph is a record; a property the code leaves undefined (sectors and   *)
(* tools of an extracted entity) is a field the record does not have.     *)

\* Object.values(EntityType), in declaration order
EntityTypeValues ==
    <<THREAT_ACTOR, MALWARE, IP_ADDRESS, DOMAIN_NAME, CVE, "TTP", "ORGANIZATION", "LOCATION">>

\* the properties of an entity that hold arrays
ArrayFields == {"aliases", "sources", "sectors", "tools"}

\* the elements of an array property as strings; identifiers are numbered in
\* the model and written in decimal
elementTexts(ent, field) ==
    IF field = "sources" THEN {natText(x) : x \in ent.sources} ELSE ent[field]

\* String(entityVal || '') for a property that holds no array; identifiers and
\* timestamps are numbered in the model and written in decimal
fieldText(ent, field) ==
    IF field \notin DOMAIN ent THEN ""
    ELSE CASE field \in {"id", "firstSeen", "lastSeen"} -> natText(ent[field])
           [] field = "confidenceScore" ->
                IF ent.confidenceScore = 0 THEN ""
                ELSE numberText(scoreNumber(ent.confidenceScore))
           [] field \in {"isEnriched", "isValidated"} -> IF ent[field] THEN "true" ELSE ""
           [] OTHER -> ent[field]

\* a callback that rejects the entity when the condition does not parse
conditionHoldsStrict(ent, cond) ==
    With(matchCondition(cond), LAMBDA m :
        IF ~m.ok THEN FALSE
        ELSE IF toLowerCase(m.field) = "confidence"
        THEN compareNumbers(scoreNumber(ent.confidenceScore), m.op,
                            percentOf(parseFloat(m.val)))
        ELSE IF m.field \in DOMAIN ent /\ m.field \in ArrayFields
        THEN /\ toUpperCase(m.op) = "CONTAINS"
             /\ \E v \in elementTexts(ent, m.field) :
                   includes(toLowerCase(v), toLowerCase(m.val))
        ELSE compareStrings(toLowerCase(fieldText(ent, m.field)), m.op, toLowerCase(m.val)))

\* the callback of conditions.every for one entity and one condition
conditionHolds(ent, cond) ==
    With(matchCondition(cond), LAMBDA m :
        IF ~m.ok THEN TRUE
        ELSE IF toLowerCase(m.field) = "confidence"
        THEN compareNumbers(scoreNumber(ent.confidenceScore), m.op,
                            percentOf(parseFloat(m.val)))
        ELSE IF m.field \in DOMAIN ent /\ m.field \in ArrayFields
        THEN /\ toUpperCase(m.op) = "CONTAINS"
             /\ \E v \in elementTexts(ent, m.field) :
                   includes(toLowerCase(v), toLowerCase(m.val))
        ELSE compareStrings(toLowerCase(fieldText(ent, m.field)), m.op, toLowerCase(m.val)))

\* Object.values(EntityType).find(t => t === name): the type, "" if none
findType(name) ==
    With({n \in 1..Len(EntityTypeValues) : EntityTypeValues[n] = name}, LAMBDA hits :
        IF hits = {} THEN "" ELSE EntityTypeValues[Min(hits)])

\* a selection that applies the FROM type and ignores the WHERE clause
selectByTypeOnly(ents, typeName, whereClause) ==
    With(findType(toUpperCase(typeName)), LAMBDA targetType :
        SelectSeq(ents, LAMBDA e : toUpperCase(typeName) = "ALL" \/ e.type = targetType))

\* entities.filter(e => isAll || e.type === targetType), then the WHERE filter
selectEntities(ents, typeName, whereClause) ==
    With(findType(toUpperCase(typeName)), LAMBDA targetType :
    With(IF whereClause = "" THEN <<>> ELSE splitAnd(whereClause), LAMBDA conditions :
        SelectSeq(ents, LAMBDA e :
            /\ (toUpperCase(typeName) = "ALL" \/ e.type = targetType)
            /\ \A n \in 1..Len(conditions) : conditionHolds(e, conditions[n]))))

\* showClause.split(',')
RECURSIVE splitComma(_)
splitComma(s) ==
    IF ~includes(s, ",") THEN <<s>>
    ELSE <<slice(s, 1, indexOf(s, ","))>> \o splitComma(slice(s, indexOf(s, ",") + 2, Len(s)))

\* Array.prototype.join
RECURSIVE join(_, _)
join(strs, sep) ==
    IF strs = <<>> THEN ""
    ELSE IF Len(strs) = 1 THEN strs[1]
    ELSE strs[1] \o sep \o join(Tail(strs), sep)

\* the elements of an array property in a fixed order: the model keeps the
\* arrays as sets and lists their elements in ascending order
RECURSIVE listOf(_)
listOf(S) ==
    IF S = {} THEN <<>>
    ELSE With(CHOOSE x \in S : \A y \in S \ {x} : stringLess(x, y), LAMBDA least :
            <<least>> \o listOf(S \ {least}))

\* the type a SHOW identifier names: t === field || t + 'S' === field
relatedTypeOf(field) ==
    With({n \in 1..Len(EntityTypeValues) :
             EntityTypeValues[n] = field \/ EntityTypeValues[n] \o "S" = field}, LAMBDA hits :
        IF hits = {} THEN "" ELSE EntityTypeValues[Min(hits)])

\* a join that follows only the relationships that leave the entity
relatedNamesOutgoing(ent, field, ents, rels) ==
    With(SelectSeq(rels, LAMBDA r : r.source = ent.id), LAMBDA touching :
    With([n \in 1..Len(touching) |-> touching[n].target], LAMBDA otherIds :
    With(SelectSeq(otherIds, LAMBDA id :
             \E k \in 1..Len(ents) :
                 /\ ents[k].id = id
                 /\ \A j \in 1..(k - 1) : ents[j].id # id
                 /\ \/ ents[k].type = relatedTypeOf(field)
                    \/ (field = "TOOLS" /\ ents[k].type = MALWARE)), LAMBDA kept :
        [n \in 1..Len(kept) |->
            ents[Min({k \in 1..Len(ents) : ents[k].id = kept[n]})].name])))

\* the names of the neighbours of an entity that a SHOW identifier selects, in
\* the order of the relationships
relatedNames(ent, field, ents, rels) ==
    With(SelectSeq(rels, LAMBDA r : r.source = ent.id \/ r.target = ent.id), LAMBDA touching :
    With([n \in 1..Len(touching) |->
             IF touching[n].source = ent.id THEN touching[n].target ELSE touching[n].source],
         LAMBDA otherIds :
    With(SelectSeq(otherIds, LAMBDA id :
             \E k \in 1..Len(ents) :
                 /\ ents[k].id = id
                 /\ \A j \in 1..(k - 1) : ents[j].id # id
                 /\ \/ ents[k].type = relatedTypeOf(field)
                    \/ (field = "TOOLS" /\ ents[k].type = MALWARE)), LAMBDA kept :
        [n \in 1..Len(kept) |->
            ents[Min({k \in 1..Len(ents) : ents[k].id = kept[n]})].name])))

\* the column one SHOW identifier adds to a row
showField(row, ent, field, ents, rels) ==
    IF relatedTypeOf(field) # "" \/ field \in {"MALWARE", "TOOLS"}
    THEN With(relatedNames(ent, field, ents, rels), LAMBDA related :
            mapSet(row, field, IF Len(related) > 0 THEN join(related, ", ") ELSE "-"))
    ELSE IF field = "SECTORS"
    THEN mapSet(row, "Sectors",
                IF "sectors" \in DOMAIN ent /\ join(listOf(ent.sectors), ", ") # ""
                THEN join(listOf(ent.sectors), ", ") ELSE "-")
    ELSE IF field = "SOURCES"
    THEN mapSet(row, "Source Count", Cardinality(ent.sources))
    ELSE row

\* fieldsToShow.forEach over the identifiers of the SHOW clause
RECURSIVE showFields(_, _, _, _, _)
showFields(row, ent, fields, ents, rels) ==
    IF fields = <<>> THEN row
    ELSE showFields(showField(row, ent, toUpperCase(trim(Head(fields))), ents, rels),
                    ent, Tail(fields), ents, rels)

\* the callback of filtered.map: the row of one entity
rowOf(ent, showClause, ents, rels) ==
    showFields([id |-> ent.id, Type |-> ent.type, Name |-> ent.name,
                Confidence |-> natText(ent.confidenceScore) \o "%"],
               ent, IF showClause = "" THEN <<>> ELSE splitComma(showClause), ents, rels)

\* useState(null) for the error; the empty string stands for null, which the
\* panel tells from a message by truthiness
NoError == ""

SyntaxError == "Invalid Syntax. Expected: FROM <Type> [WHERE ...] [SHOW ...]"

\* a message that names the unknown type and no valid one
unknownTypeUnlisted(name) ==
    "Unknown Entity Type: " \o name

unknownType(name) ==
    "Unknown Entity Type: " \o name \o ". Valid types: " \o join(EntityTypeValues, ", ")

\* an interpreter that narrows the entity collection to the selected entities
\* in place
runQueryInPlace(q, ents, rels) ==
    With(matchQuery(trim(q)), LAMBDA parts :
        IF ~parts.ok
        THEN [results |-> <<>>, error |-> SyntaxError, entities |-> ents, relationships |-> rels]
        ELSE IF findType(toUpperCase(parts.type)) = "" /\ toUpperCase(parts.type) # "ALL"
        THEN [results |-> <<>>, error |-> unknownType(parts.type),
              entities |-> ents, relationships |-> rels]
        ELSE With(selectEntities(ents, parts.type, parts.where), LAMBDA filtered :
                [results |-> [n \in 1..Len(filtered) |->
                                 rowOf(filtered[n], parts.show, ents, rels)],
                 error |-> NoError, entities |-> filtered, relationships |-> rels]))

\* runQuery: the rows and the error it sets, and the two collections of the
\* props as they are when it returns
runQuery(q, ents, rels) ==
    With(matchQuery(trim(q)), LAMBDA parts :
        IF ~parts.ok
        THEN [results |-> <<>>, error |-> SyntaxError, entities |-> ents, relationships |-> rels]
        ELSE IF findType(toUpperCase(parts.type)) = "" /\ toUpperCase(parts.type) # "ALL"
        THEN [results |-> <<>>, error |-> unknownType(parts.type),
              entities |-> ents, relationships |-> rels]
        ELSE With(selectEntities(ents, parts.type, parts.where), LAMBDA filtered :
                [results |-> [n \in 1..Len(filtered) |->
                                 rowOf(filtered[n], parts.show, ents, rels)],
                 error |-> NoError, entities |-> ents, relationships |-> rels]))

----------------------------------------------------------------------------
(* Inputs *)

\* the fragments texts are made of
Fragments ==
    {"1.2.3.44", "1.2.3.4", "CVE-2024-1234", "cve-2024-1234", "evil.com",
     "APT28", "Fancy Bear", "Emotet", "Lazarus Group"}

\* the filler between two fragments: close, beyond the correlation window, or
\* such that the next fragment starts Window - 1 characters after a fragment of
\* seven characters and Window characters after one of eight
Gaps == {2, Window - 8, Window}

RECURSIVE placeAt(_, _, _)
placeAt(strs, gaps, at) ==
    IF strs = <<>> THEN <<>>
    ELSE <<[s |-> Head(strs), at |-> at]>>
         \o placeAt(Tail(strs), Tail(gaps), at + Len(Head(strs)) + Head(gaps))

\* every text of at most n fragments
TextsUpTo(n) ==
    UNION {{placeAt(strs, gaps, 0) : strs \in [1..k -> Fragments], gaps \in [1..k -> Gaps]} :
           k \in 0..n}

Texts == TextsUpTo(MaxFragments)

\* the title IngestionPanel gives to every pasted text
Titles == {"Manual Analyst Input"}

\* the texts submitted to the local pipeline
IngestTexts ==
    {placeAt(<<"APT28", "1.2.3.44">>, <<2, 2>>, 0),
     placeAt(<<"Fancy Bear", "CVE-2024-1234">>, <<2, 2>>, 0),
     placeAt(<<"1.2.3.4", "apt28">>, <<Window, 2>>, 0),
     <<>>}

\* the batches submitted to the local pipeline: one item, or two items at once
IngestBatches ==
    {<<t>> : t \in IngestTexts}
    \cup {<<placeAt(<<"APT28", "1.2.3.44">>, <<2, 2>>, 0), placeAt(<<"apt28">>, <<2>>, 0)>>}

\* the responses of the hosted model, as parsed by analyzeThreatText
rawEntity(name, aliases, type, sectors, tools, score, description) ==
    [name |-> name, aliases |-> aliases, type |-> type, sectors |-> sectors,
     tools |-> tools, confidenceScore |-> score, description |-> description]

rawRel(src, tgt, type) ==
    [sourceEntityName |-> src, targetEntityName |-> tgt, relationshipType |-> type]

ParsedResponses ==
    {[entities |-> <<rawEntity("1.2.3.44", {}, IP_ADDRESS, {}, {}, 70, ""),
                    rawEntity("apt28", {"Fancy Bear"}, THREAT_ACTOR, {"Financial"}, {"Mimikatz"},
                              80, "Targets banks.")>>,
      relationships |-> <<rawRel("1.2.3.44", "apt28", "CORRELATED_TO"),
                          rawRel("apt28", "1.2.3.44", "USES")>>],
     [entities |-> <<rawEntity("APT28", {"Sofacy"}, THREAT_ACTOR, {"Defense"}, {}, 60, "banks"),
                    rawEntity("Fancy Bear", {}, THREAT_ACTOR, {}, {"X-Agent"}, 99,
                              "Uses X-Agent.")>>,
      relationships |-> <<rawRel("APT28", "Fancy Bear", "USES")>>],
     [entities |-> <<rawEntity("REPORT: Manual Analyst Input", {}, REPORT, {}, {}, 50, "")>>,
      relationships |-> <<>>]}

----------------------------------------------------------------------------
(* The state machine of the application *)

NoOp ==
    [op |-> "none", prevEntities |-> <<>>, prevRels |-> <<>>, incoming |-> <<>>,
     incomingRels |-> <<>>, map |-> EmptyMap, reportId |-> 0, firstMap |-> EmptyMap,
     existingAfter |-> <<>>, incomingAfter |-> <<>>, candidates |-> <<>>,
     hadRows |-> FALSE]

NoExtract == [entities |-> <<>>, relationships |-> <<>>]

NoSimilarity == [intersection |-> 0, union |-> 1]

\* no call of getSimilarity made
IdleSimilarity ==
    /\ names = <<"", "">>
    /\ similarity = [forward |-> NoSimilarity, backward |-> NoSimilarity, self |-> NoSimilarity]

\* the query panel as it is mounted
IdleQuery ==
    /\ query = "FROM THREAT_ACTOR WHERE confidence > 50 SHOW MALWARE, SECTORS"
    /\ results = <<>>
    /\ error = NoError

\* the record of the data file before any save
NotSaved == [entities |-> <<>>, relationships |-> <<>>, reports |-> <<>>]

\* useState([]) for the reports, no timer set, nothing posted
IdleSave ==
    /\ reports = <<>>
    /\ timers = <<>>
    /\ saved = NotSaved

\* useState([]) for both collections
Init ==
    /\ IdleSimilarity
    /\ IdleQuery
    /\ IdleSave
    /\ entities = <<>>
    /\ relationships = <<>>
    /\ nextId = 1
    /\ now = 0
    /\ text = <<>>
    /\ extracted = NoExtract
    /\ last = NoOp

\* saveWorkspace as handleIngest holds it: the function of the render that
\* made handleIngest, whose payload is built from that render's entities,
\* relationships and reports
renderClosure(renderEntities, renderRelationships, renderReports) ==
    [entities |-> renderEntities, relationships |-> renderRelationships,
     reports |-> renderReports]

\* The closures not yet run once mergeKnowledgeGraph has returned merged: the
\* arrays they hold are earlier values of the entities state, whose records are
\* the first records of merged, and the merge branch assigns to those records
mutatedInPlace(closures, merged) ==
    [k \in 1..Len(closures) |->
        [closures[k] EXCEPT !.entities = SubSeq(merged, 1, Len(closures[k].entities))]]

feedItem(id, title, content, timestamp) ==
    [id |-> id, title |-> title, content |-> content, sourceName |-> "Analyst Input",
     url |-> "", timestamp |-> timestamp]

\* handleIngest of the local pipeline on a batch of items: the loop, then the
\* setEntities updater with the setRelationships updater nested in it
IngestLocal ==
    /\ now < MaxClock
    /\ \E title \in Titles : \E contents \in IngestBatches :
         LET n == Len(contents)
             items == [k \in 1..n |-> feedItem(nextId + k - 1, title, contents[k], now)]
         IN  \E got \in {collectItems(items, [entities |-> <<>>, rels |-> <<>>,
                                                reports |-> <<>>,
                                                next |-> nextId + n], now)} :
             \E res \in {mergeKnowledgeGraph(entities, got.entities)} :
                /\ entities' = res.merged
                /\ relationships' = reconcileLocal(relationships, got.rels, res.map)
                /\ reports' = got.reports \o reports
                /\ timers' = Append(mutatedInPlace(timers, res.merged),
                                    renderClosure(SubSeq(res.merged, 1, Len(entities)),
                                                  relationships, reports))
                /\ nextId' = got.next
                /\ last' = [op |-> "local", prevEntities |-> entities,
                            prevRels |-> relationships, incoming |-> got.entities,
                            incomingRels |-> got.rels, map |-> res.map,
                            reportId |-> nextId + n]
    /\ now' = now + 1
    /\ UNCHANGED <<text, extracted, simVars, queryVars, saved>>

\* the time that passes between the clock reading of analyzeThreatText and the
\* one the setEntities updater makes when it runs: none, or one tick
Elapsed == {0, 1}

\* handleIngest of the AI pipeline on one item: the response of analyzeThreatText,
\* then the setEntities updater with the setRelationships updater nested in it
IngestAI ==
    /\ now < MaxClock
    /\ \E title \in Titles : \E parsed \in ParsedResponses : \E elapsed \in Elapsed :
         LET item == feedItem(nextId, title, <<>>, now)
             reportId == nextId + 1
             reportEntity == [reportEntityOf(item, reportId) EXCEPT !.isValidated = FALSE]
         IN  \E result \in {analyzeThreatText(parsed, item.id, nextId + 2, now)} :
             \E res \in {normalizeEntities(entities, reportEntity, result.entities, now + elapsed)} :
                /\ entities' = res.merged
                /\ relationships' =
                      correlateRelationships(relationships, result.relationships,
                                             result.entities, res.map, reportId)
                /\ nextId' = nextId + 2 + Len(result.entities)
                /\ reports' = <<reportOf(item, reportId)>> \o reports
                /\ last' = [op |-> "ai", prevEntities |-> entities,
                            prevRels |-> relationships, incoming |-> result.entities,
                            incomingRels |-> result.relationships, map |-> res.map,
                            reportId |-> reportId]
    /\ now' = now + 1
    /\ UNCHANGED <<text, extracted, simVars, queryVars, timers, saved>>

Next == IngestLocal \/ IngestAI

Spec == Init /\ [][Next]_vars

\* the callback of setTimeout(saveWorkspace, 1000): the earliest closure not yet
\* run posts its payload, and the server writes the body to the data file
SaveWorkspace ==
    /\ timers # <<>>
    /\ saved' = Head(timers)
    /\ timers' = Tail(timers)
    /\ last' = [NoOp EXCEPT !.op = "save"]
    /\ UNCHANGED <<entities, relationships, nextId, now, text, extracted, simVars,
                   queryVars, reports>>

\* the local pipeline with its timers
NextSave == IngestLocal \/ SaveWorkspace

SpecSave == Init /\ [][NextSave]_vars

----------------------------------------------------------------------------
(* The extractor on its own: processTextLocal applied to every text *)

InitExtract ==
    /\ IdleSimilarity
    /\ IdleQuery
    /\ IdleSave
    /\ entities = <<>>
    /\ relationships = <<>>
    /\ nextId = 1
    /\ now = 0
    /\ text \in Texts
    /\ extracted = NoExtract
    /\ last = [NoOp EXCEPT !.op = "input"]

\* one call of processTextLocal; the candidates array of the call is recorded
Extract ==
    /\ last.op = "input"
    /\ \E cands \in {candidatesOf(text)} :
          /\ extracted' = resolveCandidates(cands, nextId, nextId + 1, now)
          /\ last' = [last EXCEPT !.op = "extract", !.candidates = cands]
    /\ nextId' = nextId + 1 + Len(extracted'.entities)
    /\ UNCHANGED <<entities, relationships, now, text, simVars, queryVars, saveVars>>

NextExtract == Extract

SpecExtract == InitExtract /\ [][NextExtract]_vars

----------------------------------------------------------------------------
(* The merge on its own: mergeKnowledgeGraph and the inline normalization *)
(* of the AI pipeline applied to graphs and batches of typed entities     *)

entity(id, name, type, aliases, sectors, tools, score, seen, description) ==
    [id |-> id, name |-> name, aliases |-> aliases, type |-> type,
     confidenceScore |-> score, firstSeen |-> seen, lastSeen |-> seen,
     sources |-> {100 + id}, isEnriched |-> FALSE, isValidated |-> FALSE,
     description |-> description, sectors |-> sectors, tools |-> tools]

ExistingPool ==
    {entity(1, "Fancy Bear APT", THREAT_ACTOR, {"Sofacy"}, {"Defense"}, {}, 60, 0, "Known group."),
     entity(2, "1.2.3.44", IP_ADDRESS, {}, {}, {}, 95, 0, ExtractedDescription),
     entity(3, "Emotet", MALWARE, {}, {}, {"loader"}, 90, 0, "Banking trojan, later a loader."),
     entity(4, "Fancy Bears", THREAT_ACTOR, {}, {}, {}, 75, 0, ExtractedDescription)}

IncomingPool ==
    {entity(11, "Fancy Bear", THREAT_ACTOR, {"APT28"}, {"Financial"}, {"Mimikatz"}, 90, 1,
            "Uses Mimikatz."),
     entity(12, "fancy bear apt", THREAT_ACTOR, {}, {}, {}, 40, 1, "Known group."),
     entity(13, "1.2.3.44", DOMAIN_NAME, {}, {}, {}, 95, 1, ExtractedDescription),
     entity(14, "EMOTET", THREAT_ACTOR, {"Geodo"}, {}, {}, 100, 1, "a loader"),
     entity(15, "CVE-2024-1234", CVE, {}, {}, {}, 95, 1, ""),
     entity(16, "1.2.3.4", IP_ADDRESS, {}, {}, {}, 95, 1, ExtractedDescription),
     entity(17, "Fancy Bea", THREAT_ACTOR, {}, {}, {}, 75, 1, ExtractedDescription),
     entity(18, "cve-2024-1234", MALWARE, {}, {}, {}, 90, 1, ExtractedDescription)}

\* the sequences of at most n distinct elements of S
DistinctSeqs(S, n) ==
    UNION {{sq \in [1..k -> S] : \A i, j \in 1..k : i # j => sq[i] # sq[j]} : k \in 0..n}

InitMerge ==
    /\ IdleSimilarity
    /\ IdleQuery
    /\ IdleSave
    /\ entities \in DistinctSeqs(ExistingPool, MaxExisting)
    /\ relationships = <<>>
    /\ nextId = 20
    /\ now = 1
    /\ text = <<>>
    /\ extracted = NoExtract
    /\ \E batch \in DistinctSeqs(IncomingPool, MaxIncoming) :
         last = [NoOp EXCEPT !.op = "input", !.incoming = batch]

\* const { merged, map } = mergeKnowledgeGraph(prev, incomingEntities)
MergeCall ==
    /\ last.op = "input"
    /\ \E res \in {mergeKnowledgeGraph(entities, last.incoming)} :
           /\ entities' = res.merged
           /\ last' = [last EXCEPT !.op = "merge", !.prevEntities = entities, !.map = res.map,
                  !.existingAfter = callerView(entities, last.incoming, res).existing,
                  !.incomingAfter = callerView(entities, last.incoming, res).incoming]
    /\ UNCHANGED <<relationships, nextId, now, text, extracted, simVars, queryVars, saveVars>>

\* the forEach over result.entities inside the setEntities updater of the AI
\* pipeline; newEntities[existingIndex] = {...existing, ...} builds a new record
\* and leaves the records of prevEntities and of the batch as they were
NormalizeCall ==
    /\ last.op = "input"
    /\ \E res \in {normalizeLoop(entities, EmptyMap, last.incoming, now)} :
           /\ entities' = res.merged
           /\ last' = [last EXCEPT !.op = "normalize", !.prevEntities = entities, !.map = res.map,
                  !.existingAfter = entities, !.incomingAfter = last.incoming]
    /\ UNCHANGED <<relationships, nextId, now, text, extracted, simVars, queryVars, saveVars>>

\* mergeKnowledgeGraph(merged, incomingEntities) once more, on the collection the
\* first call returned and the same batch
MergeAgain ==
    /\ last.op = "merge"
    /\ \E res \in {mergeKnowledgeGraph(entities, last.incoming)} :
           /\ entities' = res.merged
           /\ last' = [last EXCEPT !.op = "mergeAgain", !.prevEntities = entities,
                                   !.firstMap = last.map, !.map = res.map]
    /\ UNCHANGED <<relationships, nextId, now, text, extracted, simVars, queryVars, saveVars>>

NextMerge == MergeCall \/ NormalizeCall \/ MergeAgain

SpecMerge == InitMerge /\ [][NextMerge]_vars

----------------------------------------------------------------------------
(* The relationship step on its own, on stored sets, batches and id maps *)

rel(src, tgt, type, weight) == [source |-> src, target |-> tgt, type |-> type, weight |-> weight]

StoredRelChoices ==
    {<<>>,
     <<rel(1, 2, "USES", 100)>>,
     <<rel(1, 2, "USES", 100), rel(2, 1, "USES", 100), rel(1, 2, "TARGETS", 100)>>}

RelPool ==
    {rel(1, 2, "USES", 100), rel(1, 2, "USES", 50), rel(3, 2, "USES", 100),
     rel(3, 1, "USES", 100), rel(3, 4, "TARGETS", 50), rel(4, 2, "TARGETS", 100)}

MapChoices ==
    {EmptyMap,
     [x \in {3} |-> 1],
     [x \in {3, 4} |-> IF x = 3 THEN 1 ELSE 4],
     [x \in {3, 4} |-> 1],
     [x \in {3, 4} |-> IF x = 3 THEN 2 ELSE 1]}

InitReconcile ==
    /\ IdleSimilarity
    /\ IdleQuery
    /\ IdleSave
    /\ entities = <<>>
    /\ relationships \in StoredRelChoices
    /\ nextId = 20
    /\ now = 1
    /\ text = <<>>
    /\ extracted = NoExtract
    /\ \E batch \in DistinctSeqs(RelPool, MaxRelBatch) : \E m \in MapChoices :
         last = [NoOp EXCEPT !.op = "input", !.incomingRels = batch, !.map = m]

\* the setRelationships updater of the local pipeline
ReconcileLocalCall ==
    /\ last.op = "input"
    /\ relationships' = reconcileLocal(relationships, last.incomingRels, last.map)
    /\ last' = [last EXCEPT !.op = "reconcileLocal", !.prevRels = relationships]
    /\ UNCHANGED <<entities, nextId, now, text, extracted, simVars, queryVars, saveVars>>

\* the setRelationships updater of the AI pipeline, for a response without entities
ReconcileInlineCall ==
    /\ last.op = "input"
    /\ relationships' = correlateRelationships(relationships, last.incomingRels, last.incoming,
                                               last.map, last.reportId)
    /\ last' = [last EXCEPT !.op = "reconcileInline", !.prevRels = relationships]
    /\ UNCHANGED <<entities, nextId, now, text, extracted, simVars, queryVars, saveVars>>

NextReconcile == ReconcileLocalCall \/ ReconcileInlineCall

SpecReconcile == InitReconcile /\ [][NextReconcile]_vars

----------------------------------------------------------------------------
(* getSimilarity on its own, on pairs of names *)

SimilarityNames ==
    {"", "Fancy Bear", "Fancy Bear APT", "Fancy Bears", "Fancy Bea", "raeB ycnaF",
     "APT28", "apt28", "APT29", "Emotet"}

IdleGraph ==
    /\ entities = <<>>
    /\ relationships = <<>>
    /\ nextId = 1
    /\ now = 0
    /\ text = <<>>
    /\ extracted = NoExtract

InitSimilarity ==
    /\ IdleGraph
    /\ IdleQuery
    /\ IdleSave
    /\ last = [NoOp EXCEPT !.op = "input"]
    /\ names \in SimilarityNames \X SimilarityNames
    /\ similarity = [forward |-> NoSimilarity, backward |-> NoSimilarity, self |-> NoSimilarity]

\* getSimilarity(a, b), getSimilarity(b, a) and getSimilarity(a, a)
Similarity ==
    /\ last.op = "input"
    /\ similarity' = [forward |-> getSimilarity(names[1], names[2]),
                      backward |-> getSimilarity(names[2], names[1]),
                      self |-> getSimilarity(names[1], names[1])]
    /\ last' = [last EXCEPT !.op = "similarity"]
    /\ UNCHANGED <<entities, relationships, nextId, now, text, extracted, names, queryVars, saveVars>>

NextSimilarity == Similarity

SpecSimilarity == InitSimilarity /\ [][NextSimilarity]_vars

----------------------------------------------------------------------------
(* The query panel on its own, over graphs the pipelines produce *)

\* an entity as processTextLocal creates it: no sectors and no tools property
extractedEntity(id, name, type, score) ==
    With(entity(id, name, type, {}, {}, {}, score, 0, ExtractedDescription), LAMBDA e :
        [f \in (DOMAIN e) \ {"sectors", "tools"} |-> e[f]])

\* the graph after a local ingestion of one report
LocalGraph ==
    [entities |-> <<extractedEntity(1, "REPORT: Manual Analyst Input", REPORT, 100),
                    extractedEntity(2, "1.2.3.4", IP_ADDRESS, 95),
                    extractedEntity(3, "Fancy Bear", THREAT_ACTOR, 90),
                    extractedEntity(4, "Emotet", MALWARE, 90),
                    extractedEntity(5, "Lazarus Group", THREAT_ACTOR, 75)>>,
     relationships |-> <<rel(1, 2, "MENTIONS", ExplicitWeight),
                         rel(1, 3, "MENTIONS", ExplicitWeight),
                         rel(2, 3, "CORRELATED_TO", CorrelatedWeight),
                         rel(3, 4, "CORRELATED_TO", CorrelatedWeight),
                         rel(4, 5, "CORRELATED_TO", CorrelatedWeight)>>]

\* a graph of entities enriched by the hosted model
EnrichedGraph ==
    [entities |-> <<entity(6, "APT28", THREAT_ACTOR, {"Fancy Bear"}, {"Financial", "Defense"},
                           {"Mimikatz"}, 50, 1, "Targets banks."),
                    entity(7, "Cozy Bear", THREAT_ACTOR, {}, {"Energy"}, {}, 80, 1, ""),
                    entity(8, "Emotet", MALWARE, {}, {}, {}, 40, 1, "A loader."),
                    entity(9, "Mimikatz", MALWARE, {}, {}, {}, 51, 1, "")>>,
     relationships |-> <<rel(6, 8, "USES", ExplicitWeight),
                         rel(9, 6, "USED_BY", ExplicitWeight),
                         rel(7, 8, "USES", ExplicitWeight),
                         rel(6, 7, "RELATED_TO", ExplicitWeight)>>]

QueryGraphs ==
    {[entities |-> <<>>, relationships |-> <<>>],
     LocalGraph,
     EnrichedGraph,
     [entities |-> LocalGraph.entities \o EnrichedGraph.entities,
      relationships |-> LocalGraph.relationships \o EnrichedGraph.relationships]}

\* the queries typed into the panel
Queries ==
    {"FROM THREAT_ACTOR WHERE confidence > 50 SHOW MALWARE, SECTORS",
     "from threat_actor where confidence > 50 show malware, sectors",
     "FROM ALL",
     "  from all  ",
     "FROM ALL SHOW SECTORS",
     "FROM MALWARE SHOW THREAT_ACTORS, SOURCES",
     "FROM THREAT_ACTOR SHOW TOOLS",
     "FROM ALL SHOW MALWARE, CVES",
     "FROM THREAT_ACTOR WHERE confidence > 50",
     "FROM THREAT_ACTOR WHERE confidence > 0.5",
     "FROM ALL WHERE confidence < 1",
     "FROM ALL WHERE confidence == 90",
     "FROM REPORT",
     "FROM WIDGET",
     "SELECT ALL",
     "",
     "FROM ALL WHERE name CONTAINS bear",
     "FROM ALL WHERE name contains bear",
     "FROM ALL WHERE NAME CONTAINS bear",
     "FROM ALL WHERE name CONTAINS BEAR",
     "FROM ALL WHERE name == 'Fancy Bear'",
     "FROM ALL WHERE sectors CONTAINS fin",
     "FROM ALL WHERE sectors == Financial",
     "FROM ALL WHERE sectors != Financial",
     "FROM ALL WHERE bogus AND confidence > 50",
     "FROM MALWARE WHERE bogus",
     "FROM ALL WHERE type == threat_actor AND confidence > 50 SHOW MALWARE"}

InitQuery ==
    /\ IdleSimilarity
    /\ IdleQuery
    /\ IdleSave
    /\ \E g \in QueryGraphs : entities = g.entities /\ relationships = g.relationships
    /\ nextId = 1
    /\ now = 0
    /\ text = <<>>
    /\ extracted = NoExtract
    /\ last = [NoOp EXCEPT !.op = "input"]

\* onChange of the query box
SetQuery ==
    /\ \E q \in Queries : query' = q
    /\ last' = [NoOp EXCEPT !.op = "edit"]
    /\ UNCHANGED <<entities, relationships, nextId, now, text, extracted, simVars,
                   results, error, saveVars>>

\* onClick of the run button: runQuery on the props of the panel
RunQuery ==
    /\ \E res \in {runQuery(query, entities, relationships)} :
          /\ results' = res.results
          /\ error' = res.error
          /\ entities' = res.entities
          /\ relationships' = res.relationships
    /\ last' = [NoOp EXCEPT !.op = "query", !.prevEntities = entities,
                            !.prevRels = relationships, !.hadRows = (results # <<>>)]
    /\ UNCHANGED <<nextId, now, text, extracted, simVars, query, saveVars>>

NextQuery == SetQuery \/ RunQuery

SpecQuery == InitQuery /\ [][NextQuery]_vars

----------------------------------------------------------------------------
(* Properties *)

Range(sq) == {sq[k] : k \in 1..Len(sq)}

sameTriple(p, q) == p.source = q.source /\ p.target = q.target /\ p.type = q.type

\* the endpoint an id map sends an identifier to: its entry, or the identifier
\* itself when the map has none
Canonical(map, id) == IF id \in DOMAIN map THEN map[id] ELSE id

Rewritten(r, map) ==
    [source |-> Canonical(map, r.source), target |-> Canonical(map, r.target),
     type |-> r.type, weight |-> r.weight]

Ingested == last.op \in {"local", "ai"}

C2_UniqueTriples ==
    \A i, j \in 1..Len(relationships) :
        i # j => ~sameTriple(relationships[i], relationships[j])

\* C3: an incoming relationship whose rewritten triple equals that of a stored
\* relationship of another weight is dropped, and the stored one keeps its weight
C3_FirstSeenWeightWins ==
    Ingested =>
        \A r \in Range(last.incomingRels) : \A p \in Range(last.prevRels) :
            (sameTriple(Rewritten(r, last.map), p) /\ r.weight # p.weight)
                => \A q \in Range(relationships) : sameTriple(q, p) => q.weight = p.weight

\* C4: no relationship returned by the extractor has its source equal to its target
C4_ExtractNoSelfLoops ==
    \A r \in Range(extracted.relationships) : r.source # r.target

\* C5: no two relationships returned by the extractor share the same
\* (source, target, type)
C5_ExtractUniqueTriples ==
    \A i, j \in 1..Len(extracted.relationships) :
        i # j => ~sameTriple(extracted.relationships[i], extracted.relationships[j])

Merged == last.op \in {"local", "ai", "merge", "normalize"}

\* the record an entity of the merged collection had before the batch was
\* merged: the stored record of that id, or the incoming entity that was appended
HasBase(x) == x.id \in ids(last.prevEntities) \cup ids(last.incoming)

BaseOf(x) ==
    IF x.id \in ids(last.prevEntities)
    THEN CHOOSE p \in Range(last.prevEntities) : p.id = x.id
    ELSE CHOOSE e \in Range(last.incoming) : e.id = x.id

\* the incoming entities of the batch that were folded into x
FoldedInto(x) ==
    {e \in Range(last.incoming) :
        e.id # x.id /\ e.id \in DOMAIN last.map /\ last.map[e.id] = x.id}

\* C6: the id map has an entry for every incoming entity id; the entry is that
\* id when the entity was appended, otherwise the id of the record it was
\* folded into, and either way the id of an entity of the merged collection
C6_IdMapTotal ==
    Merged =>
        \A e \in Range(last.incoming) :
            /\ e.id \in DOMAIN last.map
            /\ last.map[e.id] \in ids(entities)
            /\ last.map[e.id] = e.id => e.id \notin ids(last.prevEntities)
            /\ last.map[e.id] # e.id =>
                 \E x \in Range(entities) : x.id = last.map[e.id] /\ e.sources \subseteq x.sources

C6_Witness ==
    /\ Merged
    /\ \E e \in Range(last.incoming) : last.map[e.id] = e.id
    /\ \E e \in Range(last.incoming) : last.map[e.id] \in ids(last.prevEntities)

Reconciled == last.op \in {"reconcileLocal", "reconcileInline"}

\* C7: the relationship step rewrites both endpoints of every incoming
\* relationship through the id map of the batch, keeps an endpoint the map has
\* no entry for, and leaves the stored relationships as they were
C7_RewriteThroughMap ==
    Reconciled =>
        /\ Len(relationships) >= Len(last.prevRels)
        /\ SubSeq(relationships, 1, Len(last.prevRels)) = last.prevRels
        /\ \A k \in (Len(last.prevRels) + 1)..Len(relationships) :
             \E r \in Range(last.incomingRels) : relationships[k] = Rewritten(r, last.map)
        /\ \A r \in Range(last.incomingRels) :
             Rewritten(r, last.map).source # Rewritten(r, last.map).target
                => \E q \in Range(relationships) : sameTriple(q, Rewritten(r, last.map))

C7_Witness ==
    /\ Reconciled
    /\ last.prevRels # <<>>
    /\ \E r \in Range(last.incomingRels) :
         /\ r.source \in DOMAIN last.map /\ last.map[r.source] # r.source
         /\ r.target \notin DOMAIN last.map
         /\ Rewritten(r, last.map) \in Range(relationships)
         /\ Rewritten(r, last.map) \notin Range(last.prevRels)

unionOver(S, F(_)) == UNION {F(e) : e \in S}

\* C8: on a fold the record's aliases, sectors, tools and sources become the
\* union of its previous values and those of the incoming entities folded in
C8_UnionOnFold ==
    Merged =>
        \A x \in Range(entities) :
            HasBase(x) =>
                /\ x.aliases = BaseOf(x).aliases \cup unionOver(FoldedInto(x), LAMBDA e : e.aliases)
                /\ x.sectors = BaseOf(x).sectors \cup unionOver(FoldedInto(x), LAMBDA e : e.sectors)
                /\ x.tools = BaseOf(x).tools \cup unionOver(FoldedInto(x), LAMBDA e : e.tools)
                /\ x.sources = BaseOf(x).sources \cup unionOver(FoldedInto(x), LAMBDA e : e.sources)

\* C9: the confidence score of an entity never decreases in a merge; after a
\* fold it is the maximum of the previous score and the scores folded in, and
\* it stays between 0 and 1 (0 and 100 here)
C9_ConfidenceMax ==
    /\ \A x \in Range(entities) : x.confidenceScore \in 0..100
    /\ Merged =>
         \A x \in Range(entities) :
            HasBase(x) =>
                /\ x.confidenceScore >= BaseOf(x).confidenceScore
                /\ x.confidenceScore =
                     Max({BaseOf(x).confidenceScore}
                         \cup {e.confidenceScore : e \in FoldedInto(x)})

C9_Witness ==
    /\ last.op = "local"
    /\ \E x \in Range(entities) :
         /\ x.id \in ids(last.prevEntities)
         /\ \E e \in FoldedInto(x) : e.confidenceScore < BaseOf(x).confidenceScore
         /\ x.confidenceScore = BaseOf(x).confidenceScore

startsWith(s, t) == t = "" \/ (Len(s) >= Len(t) /\ slice(s, 1, Len(t)) = t)

\* C10: on a fold the description is never overwritten: an incoming
\* description that is not a substring of it is appended after the existing
\* text, otherwise the description is unchanged
C10_DescriptionAppended ==
    Merged =>
        \A x \in Range(entities) :
            HasBase(x) =>
                /\ startsWith(x.description, BaseOf(x).description)
                /\ \A e \in FoldedInto(x) : includes(x.description, e.description)
                /\ (\A e \in FoldedInto(x) : includes(BaseOf(x).description, e.description))
                      => x.description = BaseOf(x).description

\* the last entity of the batch that was folded into x, in batch order
LastFolded(x) ==
    last.incoming[Max({k \in 1..Len(last.incoming) : last.incoming[k] \in FoldedInto(x)})]

\* C11: a merge leaves the firstSeen of every record as it was when the record
\* was created, and after a fold the lastSeen of the record is the lastSeen of
\* the incoming entity folded in
C11_SeenTimestamps ==
    Merged =>
        \A x \in Range(entities) :
            HasBase(x) =>
                /\ x.firstSeen = BaseOf(x).firstSeen
                /\ FoldedInto(x) # {} => x.lastSeen = LastFolded(x).lastSeen

MergedByUtility == last.op \in {"local", "merge"}

\* the working collection met by the k-th entity of the batch: the stored
\* entities, then the entities of the batch appended before it
Working(k) ==
    last.prevEntities
    \o SelectSeq(SubSeq(last.incoming, 1, k - 1), LAMBDA e : last.map[e.id] = e.id)

ExactHits(w, e) == {i \in 1..Len(w) : toLowerCase(w[i].name) = toLowerCase(e.name)}

FuzzyHits(w, e) ==
    {i \in 1..Len(w) :
        w[i].type = THREAT_ACTOR /\ aboveThreshold(getSimilarity(w[i].name, e.name))}

\* sim(a, x) < sim(b, x), on the terms of the two quotients
lessSimilar(a, b, x) ==
    getSimilarity(a, x).intersection * getSimilarity(b, x).union
        < getSimilarity(b, x).intersection * getSimilarity(a, x).union

\* C12: an incoming entity folds into the first entity of the working
\* collection with its name, case-insensitively and whatever the type; failing
\* that a THREAT_ACTOR folds into the first THREAT_ACTOR whose similarity
\* exceeds 0.8; an entity of another type is never fuzzy-matched
C12_MatchingPolicy ==
    MergedByUtility =>
        \A k \in 1..Len(last.incoming) :
            With(Working(k), LAMBDA w :
            With(last.incoming[k], LAMBDA e :
                IF ExactHits(w, e) # {}
                THEN last.map[e.id] = w[Min(ExactHits(w, e))].id
                ELSE IF e.type = THREAT_ACTOR /\ FuzzyHits(w, e) # {}
                     THEN last.map[e.id] = w[Min(FuzzyHits(w, e))].id
                     ELSE last.map[e.id] = e.id))

\* an actor folded into the first actor above the threshold although a later
\* one is more similar
C12_Witness ==
    /\ last.op = "merge"
    /\ \E k \in 1..Len(last.incoming) :
         With(Working(k), LAMBDA w :
         With(last.incoming[k], LAMBDA e :
            /\ ExactHits(w, e) = {}
            /\ \E i, j \in FuzzyHits(w, e) :
                 /\ i < j /\ i = Min(FuzzyHits(w, e))
                 /\ lessSimilar(w[i].name, w[j].name, e.name)
                 /\ last.map[e.id] = w[i].id))

\* the Jaccard index of the two names against 0.8, on the sizes of the two sets
JaccardOver(a, b) ==
    5 * Cardinality(charSet(toLowerCase(a)) \cap charSet(toLowerCase(b)))
        > 4 * Cardinality(charSet(toLowerCase(a)) \cup charSet(toLowerCase(b)))

JaccardExactly(a, b) ==
    5 * Cardinality(charSet(toLowerCase(a)) \cap charSet(toLowerCase(b)))
        = 4 * Cardinality(charSet(toLowerCase(a)) \cup charSet(toLowerCase(b)))

ActorsOver(w, e) == {i \in 1..Len(w) : w[i].type = THREAT_ACTOR /\ JaccardOver(w[i].name, e.name)}

Appended == {k \in 1..Len(last.incoming) : last.map[last.incoming[k].id] = last.incoming[k].id}

\* a THREAT_ACTOR above the threshold of some actor of the working collection
\* is folded into a record of that collection, and the collection grows by
\* the appended entities only
FoldedAboveThreshold ==
    /\ Len(entities) = Len(last.prevEntities) + Cardinality(Appended)
    /\ \A k \in 1..Len(last.incoming) :
         With(Working(k), LAMBDA w :
         With(last.incoming[k], LAMBDA e :
            (e.type = THREAT_ACTOR /\ ActorsOver(w, e) # {})
                => last.map[e.id] \in ids(w) /\ last.map[e.id] \in ids(entities)))

\* C13 as stated: a THREAT_ACTOR above the threshold of some existing actor is
\* folded and the count does not grow; one at most at the threshold of every
\* existing actor is appended and maps to itself
C13_ThresholdAsStated ==
    MergedByUtility =>
        /\ FoldedAboveThreshold
        /\ \A k \in 1..Len(last.incoming) :
             With(Working(k), LAMBDA w :
             With(last.incoming[k], LAMBDA e :
                (e.type = THREAT_ACTOR /\ ActorsOver(w, e) = {})
                    => last.map[e.id] = e.id /\ e.id \in ids(entities) \ ids(w)))

\* C13: a THREAT_ACTOR above the threshold of some existing actor is folded
\* and the count does not grow; one at most at the threshold (0.8 included) of
\* every existing actor, and whose name no existing entity bears, is appended
\* and maps to itself
C13_Threshold ==
    MergedByUtility =>
        /\ FoldedAboveThreshold
        /\ \A k \in 1..Len(last.incoming) :
             With(Working(k), LAMBDA w :
             With(last.incoming[k], LAMBDA e :
                (e.type = THREAT_ACTOR /\ ActorsOver(w, e) = {} /\ ExactHits(w, e) = {})
                    => last.map[e.id] = e.id /\ e.id \in ids(entities) \ ids(w)))

\* one batch with an actor folded above the threshold and an actor appended at
\* exactly the threshold
C13_Witness ==
    /\ last.op = "merge"
    /\ \E k \in 1..Len(last.incoming) :
         With(Working(k), LAMBDA w :
         With(last.incoming[k], LAMBDA e :
            /\ e.type = THREAT_ACTOR /\ ExactHits(w, e) = {} /\ ActorsOver(w, e) # {}
            /\ last.map[e.id] \in ids(last.prevEntities)))
    /\ \E k \in 1..Len(last.incoming) :
         With(Working(k), LAMBDA w :
         With(last.incoming[k], LAMBDA e :
            /\ e.type = THREAT_ACTOR /\ ActorsOver(w, e) = {}
            /\ \E i \in 1..Len(w) : w[i].type = THREAT_ACTOR /\ JaccardExactly(w[i].name, e.name)
            /\ last.map[e.id] = e.id))

\* the quotient of a similarity is NaN when the union is empty
isNaN(sim) == sim.union = 0

\* a == b on two quotients: NaN equals nothing
sameQuotient(x, y) ==
    ~isNaN(x) /\ ~isNaN(y) /\ x.intersection * y.union = y.intersection * x.union

\* C14: the similarity is symmetric, sim(a, b) = sim(b, a), and reflexive,
\* sim(a, a) = 1, for all strings, the empty string included
C14_SimilaritySymmetricReflexive ==
    last.op = "similarity" =>
        /\ sameQuotient(similarity.forward, similarity.backward)
        /\ sameQuotient(similarity.self, [intersection |-> 1, union |-> 1])

C16_MergeLeavesInputs ==
    last.op = "merge" =>
        /\ last.existingAfter = last.prevEntities
        /\ last.incomingAfter = last.incoming


\* the candidates of the extracted text whose lowercased name is key, by position
\* in pass order
CandidatesOfKey(cands, key) == {k \in 1..Len(cands) : toLowerCase(cands[k].name) = key}

\* the returned entities whose lowercased name is key
EntitiesOfKey(key) ==
    {i \in 1..Len(extracted.entities) : toLowerCase(extracted.entities[i].name) = key}

\* C17: the extractor returns exactly one entity per distinct lowercased
\* candidate name and no other entity; the entity has the name, the type and the
\* confidence of the first candidate of its key in pass order; a text without
\* candidates gives empty entity and relationship collections
C17_OneEntityPerKey ==
    last.op = "extract" =>
        With(last.candidates, LAMBDA cands :
            /\ \A k \in 1..Len(cands) :
                  Cardinality(EntitiesOfKey(toLowerCase(cands[k].name))) = 1
            /\ \A i \in 1..Len(extracted.entities) :
                  With(CandidatesOfKey(cands, toLowerCase(extracted.entities[i].name)),
                       LAMBDA same :
                      /\ same # {}
                      /\ extracted.entities[i].name = cands[Min(same)].name
                      /\ extracted.entities[i].type = cands[Min(same)].type
                      /\ extracted.entities[i].confidenceScore = cands[Min(same)].confidence)
            /\ cands = <<>> =>
                  extracted.entities = <<>> /\ extracted.relationships = <<>>)

\* an extraction in which a key has a second candidate that differs from the
\* first in name or confidence
C17_Witness ==
    /\ last.op = "extract"
    /\ \E i \in 1..Len(extracted.entities) :
          \E j, k \in CandidatesOfKey(last.candidates,
                                      toLowerCase(extracted.entities[i].name)) :
              /\ j < k
              /\ \/ last.candidates[j].name # last.candidates[k].name
                 \/ last.candidates[j].confidence # last.candidates[k].confidence


\* the pairs of candidates, by position in pass order, that differ in type and
\* lie less than Window characters apart
CloseUnlikePairs(cands) ==
    {p \in (1..Len(cands)) \X (1..Len(cands)) :
        /\ p[1] < p[2]
        /\ cands[p[1]].type # cands[p[2]].type
        /\ abs(cands[p[1]].index - cands[p[2]].index) < Window}

\* the identifier of the returned entity a candidate was deduplicated into
EntityIdOf(cand) ==
    extracted.entities[CHOOSE i \in 1..Len(extracted.entities) :
        toLowerCase(extracted.entities[i].name) = toLowerCase(cand.name)].id

C19_QueryLeavesGraph ==
    last.op = "query" =>
        /\ entities = last.prevEntities
        /\ relationships = last.prevRels

\* a query has been run that selected some entities and left others out
C19_Witness ==
    /\ last.op = "query"
    /\ relationships # <<>>
    /\ results # <<>>
    /\ Len(results) < Len(last.prevEntities)

\* the positions of the entities that pass the FROM selection and every
\* condition of the WHERE clause of the query
Passing(parts) ==
    {k \in 1..Len(entities) :
        /\ \/ toUpperCase(parts.type) = "ALL"
           \/ entities[k].type = findType(toUpperCase(parts.type))
        /\ parts.where # "" =>
              \A n \in 1..Len(splitAnd(parts.where)) :
                  conditionHolds(entities[k], splitAnd(parts.where)[n])}

\* C20: a successful query returns one row per entity that passes the FROM
\* selection and every WHERE condition, in the order of the entity collection;
\* each row carries the id, the type, the name and the confidence percentage of
\* its entity; FROM ALL without WHERE returns as many rows as there are entities
C20_OneRowPerMatch ==
    (last.op = "query" /\ error = NoError) =>
        With(matchQuery(trim(query)), LAMBDA parts :
        With(Passing(parts), LAMBDA hits :
            /\ Len(results) = Cardinality(hits)
            /\ \A n \in 1..Len(results) :
                  \E k \in hits :
                      /\ Cardinality({j \in hits : j <= k}) = n
                      /\ results[n]["id"] = entities[k].id
                      /\ results[n]["Type"] = entities[k].type
                      /\ results[n]["Name"] = entities[k].name
                      /\ results[n]["Confidence"] = natText(entities[k].confidenceScore) \o "%"
            /\ (toUpperCase(parts.type) = "ALL" /\ parts.where = "")
                  => Len(results) = Len(entities)))

\* a successful query with a WHERE clause returned two rows or more and left
\* out an entity of the selected type
C20_Witness ==
    /\ last.op = "query"
    /\ error = NoError
    /\ matchQuery(trim(query)).where # ""
    /\ Len(results) >= 2
    /\ Len(results) < Len(selectByTypeOnly(entities, matchQuery(trim(query)).type, ""))


\* the identifiers of the rows, in row order
rowIds == [n \in 1..Len(results) |-> results[n]["id"]]

\* the identifiers of the entities at the positions S, in collection order
idsAt(S) ==
    With(SelectSeq([k \in 1..Len(entities) |-> k], LAMBDA k : k \in S), LAMBDA ks :
        [n \in 1..Len(ks) |-> entities[ks[n]].id])

\* the positions of the entities the FROM clause selects
OfType(parts) ==
    {k \in 1..Len(entities) :
        \/ toUpperCase(parts.type) = "ALL"
        \/ entities[k].type = findType(toUpperCase(parts.type))}

\* score op literal, both in ten-thousandths, for the four comparison operators
holdsFor(score, op, literal) ==
    CASE op = "==" -> score = literal
      [] op = "!=" -> score # literal
      [] op = ">" -> score > literal
      [] op = "<" -> score < literal

\* the WHERE clause of the query is one condition that compares the field
\* confidence with a numeric literal
OnConfidence(parts) ==
    /\ parts.where # ""
    /\ Len(splitAnd(parts.where)) = 1
    /\ matchCondition(parts.where).ok
    /\ toLowerCase(matchCondition(parts.where).field) = "confidence"
    /\ matchCondition(parts.where).op \in {"==", "!=", ">", "<"}
    /\ ~parseFloat(matchCondition(parts.where).val).nan

\* C21: a condition on confidence compares the stored score with literal / 100
\* when the literal is greater than 1 and with the literal itself when it is at
\* most 1; FROM THREAT_ACTOR WHERE confidence > 50 returns the THREAT_ACTOR
\* entities whose score is strictly greater than 0.5 and no other
C21_ConfidencePercent ==
    (last.op = "query" /\ error = NoError) =>
        With(matchQuery(trim(query)), LAMBDA parts :
            OnConfidence(parts) =>
                With(matchCondition(parts.where), LAMBDA m :
                With(parseFloat(m.val).x, LAMBDA literal :
                    rowIds = idsAt({k \in OfType(parts) :
                                 holdsFor(entities[k].confidenceScore * 100, m.op,
                                          IF literal > 10000 THEN literal \div 100
                                          ELSE literal)}))))

\* FROM THREAT_ACTOR WHERE confidence > 50 has been run on a graph with an
\* actor at 0.5, left out, and an actor above 0.5, returned
C21_Witness ==
    /\ last.op = "query"
    /\ error = NoError
    /\ query = "FROM THREAT_ACTOR WHERE confidence > 50"
    /\ \E k \in 1..Len(entities) :
          /\ entities[k].type = THREAT_ACTOR
          /\ entities[k].confidenceScore = 50
          /\ \A n \in 1..Len(results) : results[n]["id"] # entities[k].id
    /\ \E n \in 1..Len(results) :
          \E k \in 1..Len(entities) :
              /\ results[n]["id"] = entities[k].id
              /\ entities[k].type = THREAT_ACTOR
              /\ entities[k].confidenceScore > 50


\* C22: a query whose FROM names neither ALL nor a type of the enumeration ends
\* with an error that lists the valid type names, and a query that does not
\* match the grammar ends with an error that states the expected shape; both
\* leave no rows, whatever rows an earlier query had produced
C22_QueryErrors ==
    last.op = "query" =>
        With(matchQuery(trim(query)), LAMBDA parts :
            /\ ~parts.ok =>
                  /\ results = <<>>
                  /\ includes(error, "Invalid Syntax")
                  /\ includes(error, "FROM <Type> [WHERE ...] [SHOW ...]")
            /\ (/\ parts.ok
                /\ toUpperCase(parts.type) # "ALL"
                /\ \A n \in 1..Len(EntityTypeValues) :
                      EntityTypeValues[n] # toUpperCase(parts.type)) =>
                  /\ results = <<>>
                  /\ includes(error, parts.type)
                  /\ \A n \in 1..Len(EntityTypeValues) : includes(error, EntityTypeValues[n]))

\* a query with an unknown type has been run while the rows of an earlier query
\* were shown
C22_Witness ==
    /\ last.op = "query"
    /\ last.hadRows
    /\ query = "FROM WIDGET"
    /\ error # NoError
    /\ results = <<>>


\* the conditions of a WHERE clause that parse as <field> <op> <value>
Parsed(whereClause) ==
    SelectSeq(splitAnd(whereClause), LAMBDA cond : matchCondition(cond).ok)

\* C23: a condition of the WHERE clause that does not parse raises no error and
\* removes no entity: the rows are those of the entities that pass the FROM
\* selection and the conditions that do parse
C23_MalformedConditionIgnored ==
    (last.op = "query" /\ matchQuery(trim(query)).ok /\ matchQuery(trim(query)).where # "") =>
        With(matchQuery(trim(query)), LAMBDA parts :
        With(Parsed(parts.where), LAMBDA conditions :
            (/\ Len(conditions) < Len(splitAnd(parts.where))
             /\ (toUpperCase(parts.type) = "ALL" \/ findType(toUpperCase(parts.type)) # "")) =>
                /\ error = NoError
                /\ rowIds = idsAt({k \in OfType(parts) :
                                 \A n \in 1..Len(conditions) :
                                     conditionHolds(entities[k], conditions[n])})))

\* a query with a condition that does not parse and one that does has returned
\* some entities and left others out
C23_Witness ==
    /\ last.op = "query"
    /\ error = NoError
    /\ query = "FROM ALL WHERE bogus AND confidence > 50"
    /\ results # <<>>
    /\ Len(results) < Len(entities)


\* the elements of the array property field of an entity; none when the entity
\* has no such property
elementsOf(ent, field) == IF field \in DOMAIN ent THEN elementTexts(ent, field) ELSE {}

\* the WHERE clause of the query is one condition on sectors or on tools
OnArrayField(parts) ==
    /\ parts.where # ""
    /\ Len(splitAnd(parts.where)) = 1
    /\ matchCondition(parts.where).ok
    /\ matchCondition(parts.where).field \in {"sectors", "tools"}

\* C24: a CONTAINS condition on sectors or tools holds for exactly the entities
\* with an element that contains the value, letter case apart, and a condition
\* on such a field with ==, !=, > or < holds for no entity
C24_ArrayConditions ==
    (last.op = "query" /\ error = NoError) =>
        With(matchQuery(trim(query)), LAMBDA parts :
            OnArrayField(parts) =>
                With(matchCondition(parts.where), LAMBDA m :
                    rowIds = idsAt({k \in OfType(parts) :
                                 /\ toUpperCase(m.op) = "CONTAINS"
                                 /\ \E v \in elementsOf(entities[k], m.field) :
                                       includes(toLowerCase(v), toLowerCase(m.val))})))


\* C25: the letter case of a query does not matter: the rows of the query that
\* was run are the rows the same query gives when written in lower case
\* (keywords, type name, operators, field names and compared values alike)
C25_CaseInsensitive ==
    last.op = "query" =>
        results = runQuery(toLowerCase(query), entities, relationships).results


\* the entity with identifier id is stored and has the given type
HasType(id, type) == \E k \in 1..Len(entities) : entities[k].id = id /\ entities[k].type = type

\* the name of the stored entity with identifier id
NameOf(id) == entities[Min({k \in 1..Len(entities) : entities[k].id = id})].name

\* the names of the entities of the given type at the other end of the
\* relationships that start or end at id, one per relationship, in their order
NeighbourNames(id, type) ==
    With(SelectSeq(relationships, LAMBDA r :
             \/ r.source = id /\ HasType(r.target, type)
             \/ r.source # id /\ r.target = id /\ HasType(r.source, type)), LAMBDA joined :
        [n \in 1..Len(joined) |->
            NameOf(IF joined[n].source = id THEN joined[n].target ELSE joined[n].source)])

\* the identifiers of the SHOW clause, trimmed and in upper case
Shown(parts) ==
    IF parts.show = "" THEN <<>>
    ELSE With(splitComma(parts.show), LAMBDA fields :
            [i \in 1..Len(fields) |-> toUpperCase(trim(fields[i]))])

\* the type a SHOW identifier stands for: TOOLS for MALWARE, else the type it
\* names with or without a final S, "" if none
ShownType(f) ==
    IF f = "TOOLS" THEN MALWARE
    ELSE IF \E n \in 1..Len(EntityTypeValues) : f \in {EntityTypeValues[n], EntityTypeValues[n] \o "S"}
    THEN EntityTypeValues[CHOOSE n \in 1..Len(EntityTypeValues) :
                              f \in {EntityTypeValues[n], EntityTypeValues[n] \o "S"}]
    ELSE ""

\* C26: for a SHOW identifier that names an entity type, with or without a
\* final S, the column of a row holds the names, joined by ", ", of the entities
\* of that type one relationship away from the row's entity in either
\* direction, or "-" when there is none; for TOOLS these are the MALWARE
\* neighbours
C26_ShowJoin ==
    (last.op = "query" /\ error = NoError) =>
        With(Shown(matchQuery(trim(query))), LAMBDA fields :
            \A n \in 1..Len(results) : \A i \in 1..Len(fields) :
                ShownType(fields[i]) # "" =>
                    With(NeighbourNames(results[n]["id"], ShownType(fields[i])), LAMBDA related :
                        /\ fields[i] \in DOMAIN results[n]
                        /\ results[n][fields[i]] =
                              IF related = <<>> THEN "-" ELSE join(related, ", ")))

\* SHOW TOOLS has been run: a row lists two MALWARE neighbours, one of them
\* through a relationship that ends at the row's entity
C26_Witness ==
    /\ last.op = "query"
    /\ error = NoError
    /\ query = "FROM THREAT_ACTOR SHOW TOOLS"
    /\ \E n \in 1..Len(results) :
          /\ Len(NeighbourNames(results[n]["id"], MALWARE)) = 2
          /\ \E r \in Range(relationships) :
                r.target = results[n]["id"] /\ HasType(r.source, MALWARE)


\* C27: after any sequence of ingestion batches the source and the target of
\* every stored relationship are ids of stored entities
C27_EndpointsStored ==
    \A r \in Range(relationships) :
        r.source \in ids(entities) /\ r.target \in ids(entities)


\* an ingestion folded the source of an extracted relationship into an entity
\* stored earlier, and the graph holds relationships
C27_Witness ==
    /\ last.op = "local"
    /\ relationships # <<>>
    /\ \E k \in 1..Len(last.incomingRels) :
           mapGet(last.map, last.incomingRels[k].source) # last.incomingRels[k].source


\* no two entities of the collection have names that are equal once lowercased
UniqueNames(list) ==
    \A i, j \in 1..Len(list) :
        i # j => toLowerCase(list[i].name) # toLowerCase(list[j].name)

\* C28: when no two existing entities have case-insensitively equal names, no
\* two entities of the collection mergeKnowledgeGraph returns have, whatever
\* names the incoming batch repeats
C28_NamesStayUnique ==
    (last.op \in {"merge", "mergeAgain"} /\ UniqueNames(last.prevEntities))
        => UniqueNames(entities)

\* a merge of a batch whose two entities share a name up to case and differ in
\* type, into a collection that holds neither
C28_Witness ==
    /\ last.op = "merge"
    /\ UniqueNames(last.prevEntities)
    /\ Len(last.incoming) = 2
    /\ toLowerCase(last.incoming[1].name) = toLowerCase(last.incoming[2].name)
    /\ last.incoming[1].type # last.incoming[2].type
    /\ Len(entities) = Len(last.prevEntities) + 1


\* the incoming entities the id map sends to themselves, in incoming order
selfMapped(incoming, map) == SelectSeq(incoming, LAMBDA e : map[e.id] = e.id)

\* the two records carry the same id, name and type
SameIdentity(a, b) == a.id = b.id /\ a.name = b.name /\ a.type = b.type

C30_SaveWritesIngested ==
    (last.op = "save" /\ timers = <<>>) =>
        /\ ids(entities) \subseteq ids(saved.entities)
        /\ Range(relationships) \subseteq Range(saved.relationships)
        /\ Range(reports) \subseteq Range(saved.reports)

====
